---- MODULE Spec2Model ----
(***************************************************************************)
(* Sreality watchdog bot: the persisted watchdog registry, the background  *)
(* sweep task (check_for_updates), the slash-command handlers that change  *)
(* the registry, the paginated crawl (scrape_all_pages) and the webhook    *)
(* dispatcher (post_to_webhook).                                           *)
(*                                                                         *)
(* The event loop is single threaded: a handler runs without interruption  *)
(* between two awaits.  The sweep body (load .. save of every watchdog) is *)
(* synchronous, so no command runs inside a sweep; a command that has      *)
(* awaited after loading the registry can have a whole sweep run before it *)
(* saves.  The process can die at any point (Crash), also inside           *)
(* save_watchdogs, which truncates the file before it writes it.           *)
(***************************************************************************)
EXTENDS Integers, Sequences, FiniteSets, TLC

VARIABLES file, torn, clock, sw, cmd, nextChan, notified, clean, seeded, checked,
          ev, post, scrape, call

\* the bot: registry, sweep task and command handlers
botVars == <<file, torn, clock, sw, cmd, nextChan, notified, clean, seeded, checked, ev>>

\* one call of post_to_webhook, one call of scrape_all_pages and one call of a
\* function of the scraper, each followed step by step
libVars == <<post, scrape, call>>

vars == <<botVars, libVars>>

(***************************************************************************)
(* Bounds of the model.                                                    *)
(***************************************************************************)
MaxChannels == 2
MaxClock == 1800
MaxRecords == 2
MaxContentPages == 2
MaxNew == 21
MaxPairs == 3
MaxNumeral == 1012
MaxText == 5
MaxScripts == 2
MaxRegistry == 2

Urls == {"A"}
Procs == {"p1"}
TimeSteps == {899, 900}
CpdInputs == {2, 96}

\* checks_per_day left out (None)
NoCpd == 0

\* checks_per_day of add_watchdog in the bot's specifications: left out, or 96
AddCpdInputs == {NoCpd, 96}

\* app_commands.Range[int, 1, 96]
AllCpd == 1..96

(***************************************************************************)
(* Program constants.                                                      *)
(***************************************************************************)
DEFAULT_INTERVAL_MINUTES == 12 * 60
CHECK_MAX_PAGES == 5
SEED_MAX_PAGES == 999
BATCH_SIZE == 10
SECONDS_PER_MINUTE == 60
RATE_LIMITED == 429
DEFAULT_RETRY_AFTER == 5

(***************************************************************************)
(* Python values.  None is the value of dict.get on an absent key; a       *)
(* value is falsy when it is None, the empty string or zero.               *)
(***************************************************************************)
None == "None"

Truthy(v) == v \notin {None, "", "0"}

Or(a, b) == IF Truthy(a) THEN a ELSE b

(***************************************************************************)
(* Listing records as the extractor hands them over.  isdict is FALSE for  *)
(* an element of a results list that is not a JSON object.                 *)
(***************************************************************************)
Rec(i, h, s) == [isdict |-> TRUE, id |-> i, hash |-> h, seoUrl |-> s]

NonDict == [isdict |-> FALSE, id |-> None, hash |-> None, seoUrl |-> None]

Listings ==
    { Rec("1", None, None),
      Rec(None, "2", None),
      Rec("2", "1", None),
      Rec(None, None, "s"),
      NonDict }

Min(a, b) == IF a <= b THEN a ELSE b

SeqsUpTo(S, n) == UNION { [1..k -> S] : k \in 0..n }

\* a results list is found only if its first element is a JSON object
Pages == { p \in SeqsUpTo(Listings, MaxRecords) : p = <<>> \/ p[1].isdict }

\* the ways to serve at most n records on at most m pages
RECURSIVE Contents(_, _)
Contents(m, n) ==
    IF m = 0 THEN {<<>>}
    ELSE {<<>>} \cup
         UNION { { <<p>> \o rest : rest \in Contents(m - 1, n - Len(p)) } :
                 p \in { q \in Pages : Len(q) <= n } }

EmptyTail == [k \in 1..CHECK_MAX_PAGES |-> <<>>]

\* What the site serves for page 1, 2, ...: the listed pages answer 200 (with
\* at most MaxRecords records in all), every later page answers with an HTTP
\* error.  With EmptyTail appended a check crawl runs into its page cap.
Servers ==
    { c \o t : c \in Contents(MaxContentPages, MaxRecords), t \in {<<>>, EmptyTail} }

(***************************************************************************)
(* get_listing_url (scraper.py 227-344).  A record is read with dict.get.  *)
(* A field holds None, a text or a number, or Obj: a value that is neither *)
(* (a list, say); a field read as a mapping holds a record with isdict, or *)
(* NotDict.  A URL is the sequence of its parts, NoUrl when there is none. *)
(***************************************************************************)
BASE_DOMAIN == "https://www.sreality.cz"

Obj == "<object>"

NoUrl == <<>>

NotDict == [isdict |-> FALSE]

EmptyDict == [isdict |-> TRUE]

Get(d, key) == IF key \in DOMAIN d THEN d[key] ELSE None

GetDict(d, key) == IF key \in DOMAIN d THEN d[key] ELSE NotDict

DIRECT_URL_KEYS == <<"seoUrl", "seo_url", "seoUri", "url", "canonical", "permalink", "href">>

NESTED_URL_KEYS == <<"url", "href", "seoUrl">>

\* the texts v for which v.startswith('http')
AbsoluteUrls == {"http://abs"}

\* lines 234-239: not falsy, and a text or a number
Usable(v) == Truthy(v) /\ v # Obj

\* lines 240-243: v itself, or urljoin(BASE_DOMAIN, v)
ToUrl(v) == IF v \in AbsoluteUrls THEN <<v>> ELSE <<BASE_DOMAIN, v>>

\* the URL of the first usable field among keys[k..], NoUrl when none is
RECURSIVE FirstUrl(_, _, _)
FirstUrl(d, keys, k) ==
    IF k > Len(keys) THEN NoUrl
    ELSE LET v == Get(d, keys[k])
         IN IF Usable(v) THEN ToUrl(v) ELSE FirstUrl(d, keys, k + 1)

\* lines 246-260
NestedUrl(item) ==
    LET seo == GetDict(item, "seo")
        link == GetDict(item, "link")
        in_seo == IF seo.isdict THEN FirstUrl(seo, NESTED_URL_KEYS, 1) ELSE NoUrl
    IN IF in_seo # NoUrl THEN in_seo
       ELSE IF link.isdict THEN FirstUrl(link, NESTED_URL_KEYS, 1) ELSE NoUrl

\* norm (266-286) on the names the model uses: lower case, every character
\* but letters, digits, '-' and blanks dropped ('+' kept for a layout), blanks
\* to dashes
Norm(s, keep_plus_pattern) ==
    IF ~Truthy(s) THEN ""
    ELSE CASE s = "Prodej" -> "prodej"
           [] s = "Byty" -> "byty"
           [] s = "Chaty" -> "chaty"
           [] s = "3+kk" -> IF keep_plus_pattern THEN "3+kk" ELSE "3kk"
           [] s = "Praha 2" -> "praha-2"
           [] s = "Vinohrady" -> "vinohrady"
           [] s = "praha" -> "praha"
           [] s = "!!!" -> ""

\* main_map (305-311)
MainMap(main) ==
    CASE main = "domy" -> "dum"
      [] main = "byty" -> "byt"
      [] main = "pozemky" -> "pozemek"
      [] main = "garaze" -> "garaz"
      [] OTHER -> main

RECURSIVE JoinDash(_)
JoinDash(parts) ==
    IF parts = <<>> THEN ""
    ELSE IF Len(parts) = 1 THEN parts[1]
    ELSE parts[1] \o "-" \o JoinDash(Tail(parts))

Piece(v) == IF Truthy(v) THEN <<v>> ELSE <<>>

IdValue_HashFirst(item) == Or(Get(item, "hash"), Get(item, "id"))

\* line 263
IdValue(item) == Or(Get(item, "id"), Get(item, "hash"))

\* lines 288-338
DetailUrl(item) ==
    LET idv == IdValue(item)
        type_cb == GetDict(item, "categoryTypeCb")
        main_cb == GetDict(item, "categoryMainCb")
        sub_cb == GetDict(item, "categorySubCb")
        trans == IF type_cb.isdict THEN Norm(Get(type_cb, "name"), FALSE) ELSE None
        main == IF main_cb.isdict THEN Norm(Get(main_cb, "name"), FALSE) ELSE None
        raw_sub == IF sub_cb.isdict THEN Get(sub_cb, "name") ELSE None
        sub == IF Truthy(raw_sub) THEN Norm(raw_sub, TRUE) ELSE None
        main_slug == IF Truthy(main) THEN MainMap(main) ELSE None
        given == GetDict(item, "locality")
        locality == IF given.isdict THEN given ELSE EmptyDict
        city == Norm(Or(Or(Get(locality, "citySeoName"), Get(locality, "city")), ""), FALSE)
        citypart ==
            Norm(Or(Or(Get(locality, "cityPartSeoName"), Get(locality, "cityPart")), ""), FALSE)
        street ==
            Norm(Or(Or(Get(locality, "streetSeoName"), Get(locality, "street")), ""), FALSE)
        location_parts == SelectSeq(<<city, citypart, street>>, Truthy)
        location_slug == IF location_parts # <<>> THEN JoinDash(location_parts) ELSE ""
        pieces ==
            <<"detail">> \o Piece(trans)
               \o (IF Truthy(main_slug) THEN <<main_slug>> ELSE Piece(main))
               \o Piece(sub) \o Piece(location_slug) \o <<idv>>
    IN IF Truthy(idv) THEN <<BASE_DOMAIN>> \o pieces ELSE NoUrl

get_listing_url(item) ==
    IF ~item.isdict THEN NoUrl
    ELSE LET direct == FirstUrl(item, DIRECT_URL_KEYS, 1)
             nested == NestedUrl(item)
         IN IF direct # NoUrl THEN direct
            ELSE IF nested # NoUrl THEN nested
            ELSE DetailUrl(item)

(***************************************************************************)
(* scrape_all_pages                                                        *)
(***************************************************************************)
CrawlKey_HashFirst(r) == IF r.isdict THEN Or(Or(r.hash, r.id), r.seoUrl) ELSE None

\* lines 377-379
CrawlKey(r) == IF r.isdict THEN Or(Or(r.id, r.hash), r.seoUrl) ELSE None

RECURSIVE Aggregate(_, _, _)
Aggregate(results, all_results, seen_ids) ==
    IF results = <<>> THEN [all_results |-> all_results, seen_ids |-> seen_ids]
    ELSE LET r == Head(results)
             rid == CrawlKey(r)
         IN IF Truthy(rid) /\ rid \in seen_ids
            THEN Aggregate(Tail(results), all_results, seen_ids)
            ELSE Aggregate(Tail(results), Append(all_results, r),
                           IF Truthy(rid) THEN seen_ids \cup {rid} ELSE seen_ids)

FetchRaises(server, page_num) == page_num > Len(server)

WithinCap_Unbounded(page_num, max_pages) == TRUE

\* line 356: page_num <= max_pages
WithinCap(page_num, max_pages) == page_num <= max_pages

OnFetchError_Discard(all_results) == <<>>

\* lines 368-374: break, with what has been collected
OnFetchError(all_results) == all_results

RECURSIVE ScrapeLoop(_, _, _, _, _)
ScrapeLoop(server, max_pages, page_num, all_results, seen_ids) ==
    IF ~WithinCap(page_num, max_pages)
    THEN [results |-> all_results, fetch_failed |-> FALSE]
    ELSE IF FetchRaises(server, page_num)
    THEN [results |-> OnFetchError(all_results), fetch_failed |-> TRUE]
    ELSE LET a == Aggregate(server[page_num], all_results, seen_ids)
         IN ScrapeLoop(server, max_pages, page_num + 1, a.all_results, a.seen_ids)

SetField(r, f, v) == [k \in DOMAIN r \cup {f} |-> IF k = f THEN v ELSE r[k]]

\* lines 407-413
Inject(r) ==
    LET url == get_listing_url(r)
    IN IF url # NoUrl THEN SetField(r, "listingUrl", url) ELSE r

\* lines 406-413
InjectAll(all_results) == [k \in 1..Len(all_results) |-> Inject(all_results[k])]

scrape_all_pages(server, max_pages) ==
    LET out == ScrapeLoop(server, max_pages, 1, <<>>, {})
    IN [out EXCEPT !.results = InjectAll(@)]

\* every outcome a sweep check's crawl and a seed crawl can have
CheckCrawls == { scrape_all_pages(server, CHECK_MAX_PAGES) : server \in Servers }

SeedCrawls == { scrape_all_pages(server, SEED_MAX_PAGES) : server \in Servers }

(***************************************************************************)
(* Watchdog records and the registry file (load_watchdogs/save_watchdogs). *)
(* last_check is None (JSON null), the text written by                     *)
(* now.isoformat() + 'Z', or some other text.                              *)
(***************************************************************************)
Null == [k |-> "null", t |-> 0]

Garbage == [k |-> "text", t |-> 0]

\* now.isoformat() + 'Z'
IsoFormatZ(t) == [k |-> "isoZ", t |-> t]

\* last_check_raw.replace('Z', '')
StripZ(raw) == IF raw.k = "isoZ" THEN [k |-> "iso", t |-> raw.t] ELSE raw

\* datetime.fromisoformat: raises ValueError on anything but an ISO text
FromIsoFormat(s) ==
    IF s.k = "iso" THEN [raised |-> FALSE, t |-> s.t] ELSE [raised |-> TRUE, t |-> 0]

\* the values load_watchdogs gives the fields a record lacks (bot.py 38-46)
DefaultsAt(now) ==
    [interval_minutes |-> DEFAULT_INTERVAL_MINUTES, created_at |-> IsoFormatZ(now),
     created_by |-> Null, last_check |-> Null]

\* of these, the fields that the sweep and the handlers read
Defaults == [f \in {"interval_minutes", "last_check"} |-> DefaultsAt(0)[f]]

Fill_Overwrite(w, d) ==
    [f \in DOMAIN w \cup DOMAIN d |-> IF f \in DOMAIN d THEN d[f] ELSE w[f]]

\* if 'f' not in w: w['f'] = d['f'], for every field f of d
Fill(w, d) ==
    [f \in DOMAIN w \cup DOMAIN d |-> IF f \in DOMAIN w THEN w[f] ELSE d[f]]

Normalize(w) == Fill(w, Defaults)

load_watchdogs(f) == [k \in 1..Len(f) |-> Normalize(f[k])]

find_watchdog_by_url_NoMatch(ws, url) == 0

\* index of the first record with this url, 0 when there is none
find_watchdog_by_url(ws, url) ==
    IF \E k \in 1..Len(ws) : ws[k].url = url
    THEN CHOOSE k \in 1..Len(ws) : ws[k].url = url /\ \A j \in 1..(k - 1) : ws[j].url # url
    ELSE 0

find_watchdog_by_channel(ws, c) ==
    IF \E k \in 1..Len(ws) : ws[k].channel_id = c
    THEN CHOOSE k \in 1..Len(ws) :
            ws[k].channel_id = c /\ \A j \in 1..(k - 1) : ws[j].channel_id # c
    ELSE 0

IntervalFromCpd_Round(checks_per_day) ==
    LET q == (2 * 24 * 60 + checks_per_day) \div (2 * checks_per_day)
    IN IF q >= 1 THEN q ELSE 1

\* max(1, int(24 * 60 / checks_per_day))
IntervalFromCpd(checks_per_day) ==
    LET q == (24 * 60) \div checks_per_day IN IF q >= 1 THEN q ELSE 1

\* add_watchdog 191-195
IntervalOf(checks_per_day) ==
    IF checks_per_day = NoCpd THEN DEFAULT_INTERVAL_MINUTES
    ELSE IntervalFromCpd(checks_per_day)

(***************************************************************************)
(* The due predicate of check_for_updates (bot.py 475-494).                *)
(***************************************************************************)
\* line 475: the interval of a watchdog as the sweep applies it
AppliedInterval(w) == w.interval_minutes

Due_Strict(w, now) ==
    LET last_check_raw == w.last_check
        parsed == FromIsoFormat(StripZ(last_check_raw))
        isNone == last_check_raw = Null \/ parsed.raised
    IN  \/ isNone
        \/ (now - parsed.t) > AppliedInterval(w) * SECONDS_PER_MINUTE

Due(w, now) ==
    LET last_check_raw == w.last_check
        parsed == FromIsoFormat(StripZ(last_check_raw))
        isNone == last_check_raw = Null \/ parsed.raised
    IN  \/ isNone
        \/ (now - parsed.t) >= AppliedInterval(w) * SECONDS_PER_MINUTE

(***************************************************************************)
(* The diff of check_for_updates (bot.py 500-509).                         *)
(***************************************************************************)
ListingId(l) == Or(l.hash, l.id)

\* listing.get raises AttributeError on an element that is not a mapping
DiffRaises(all_listings) == \E k \in 1..Len(all_listings) : ~all_listings[k].isdict

CurrentPageIds_HashOnly(all_listings) ==
    { all_listings[k].hash : k \in { j \in 1..Len(all_listings) :
                                       Truthy(all_listings[j].hash) } }

CurrentPageIds(all_listings) ==
    { ListingId(all_listings[k]) : k \in { j \in 1..Len(all_listings) :
                                             Truthy(ListingId(all_listings[j])) } }

IsNew(l, last_seen_ids) == Truthy(ListingId(l)) /\ ListingId(l) \notin last_seen_ids

NewListings(all_listings, last_seen_ids) ==
    SelectSeq(all_listings, LAMBDA l : IsNew(l, last_seen_ids))

UpdatedIds_NoFold(last_seen_ids, current_page_ids) == last_seen_ids

\* the seen-set stored when a check has found new listings (bot.py 518-519)
UpdatedIds(last_seen_ids, current_page_ids) == last_seen_ids \cup current_page_ids

InitialIds_None(initial_listings) == {}

\* initial_ids of add_watchdog (210) and reset_watchdog (413)
InitialIds(initial_listings) ==
    { ListingId(initial_listings[k]) : k \in 1..Len(initial_listings) }

Ids(listings) == { ListingId(listings[k]) : k \in 1..Len(listings) }

PostIdle == [pc |-> "idle"]

ScrapeIdle == [pc |-> "idle"]

NoCall == [fn |-> "none"]

(***************************************************************************)
(* State.                                                                  *)
(*  file      the registry file: a sequence of watchdog records            *)
(*  torn      the file does not hold a complete JSON text: a save was cut  *)
(*            between open(..., 'w') and the close (file is then <<>>)     *)
(*  clock     UTC time in seconds                                          *)
(*  sw        the sweep task: its position and its local variables         *)
(*  cmd       the command handlers in flight, one per interaction          *)
(*  nextChan  the id Discord gives the next created channel                *)
(*  notified  per channel, the identities handed to its webhook so far     *)
(*  clean     the channels whose watchdog has never been reset and has had *)
(*            no check overlapped by a command or cut by a crash           *)
(*  seeded    the channel and the crawl result of the latest add or reset, *)
(*            until a sweep or another command follows                     *)
(*  checked   per channel, the last_check that the latest completed check  *)
(*            of its watchdog recorded, null when there is none or the     *)
(*            watchdog was reset, removed or given another interval since  *)
(*  ev        what the last step did                                       *)
(***************************************************************************)
Channels == 1..MaxChannels

Outcomes == {"ok", "retry_ok", "retry_429", "status_error", "exception"}

SwLocals ==
    [all_listings |-> <<>>, new_listings |-> <<>>, last_seen_ids |-> {},
     current_page_ids |-> {}, batch |-> 0]

SwStart == [pc |-> "ready", watchdogs |-> <<>>, now |-> 0, i |-> 0] @@ SwLocals

CmdIdle ==
    [pc |-> "idle", watchdogs |-> <<>>, url |-> "", channel_id |-> 0,
     checks_per_day |-> 0, interval_minutes |-> 0, initial_listings |-> <<>>]

NoSeed == [chan |-> 0, listings |-> <<>>]

Ev(act) ==
    [act |-> act, fetch_failed |-> FALSE, outcome |-> "", chan |-> 0, checks_per_day |-> 0]

\* the timestamps that completed checks have left in a registry file
Recorded(f) ==
    [c \in Channels |->
        LET ws == load_watchdogs(f)
            k == find_watchdog_by_channel(ws, c)
        IN IF k # 0 /\ ws[k].last_check.k = "isoZ" THEN ws[k].last_check ELSE Null]

\* a registry written by an earlier version of the bot: no interval, no last_check
LegacyWatchdog ==
    [url |-> "A", channel_id |-> 1, webhook_url |-> 1, last_seen_ids |-> {"1"}]

\* a registry whose last_check is not an ISO timestamp
GarbledWatchdog ==
    [url |-> "A", channel_id |-> 1, webhook_url |-> 1, last_seen_ids |-> {"1"},
     interval_minutes |-> IntervalFromCpd(96), last_check |-> Garbage]

InitialFiles == { <<>>, <<LegacyWatchdog>>, <<GarbledWatchdog>> }

Init ==
    /\ file \in InitialFiles
    /\ torn = FALSE
    /\ clock = 0
    /\ sw = SwStart
    /\ cmd = [p \in Procs |-> CmdIdle]
    /\ nextChan = Len(file) + 1
    /\ notified = [c \in Channels |-> {}]
    /\ clean = { file[k].channel_id : k \in 1..Len(file) }
    /\ checked = Recorded(file)
    /\ seeded = NoSeed
    /\ ev = Ev("init")
    /\ post = PostIdle
    /\ scrape = ScrapeIdle
    /\ call = NoCall

\* the sweep task is not inside a sweep: it sleeps, is about to start, or has
\* died
SweepIdle == sw.pc \in {"sleep", "ready", "dead"}

\* the history of the channels in S stops being followed
Forget(S) ==
    /\ clean' = clean \ S
    /\ notified' = [c \in Channels |-> IF c \in S THEN {} ELSE notified[c]]

(***************************************************************************)
(* check_for_updates (bot.py 467-530)                                      *)
(***************************************************************************)
\* await asyncio.sleep(60): the next sweep starts at least a minute later
Tick ==
    /\ sw.pc = "sleep"
    /\ \E d \in TimeSteps :
         /\ d >= SECONDS_PER_MINUTE
         /\ clock + d <= MaxClock
         /\ clock' = clock + d
    /\ sw' = [sw EXCEPT !.pc = "ready"]
    /\ ev' = Ev("tick")
    /\ UNCHANGED <<libVars, torn, file, cmd, nextChan, notified, clean, seeded, checked>>

\* lines 470-471; json.load (36) raises on a torn file, outside every try: the
\* task that on_ready created ends and nothing starts it again
SweepBegin ==
    /\ sw.pc = "ready"
    /\ IF torn
       THEN /\ sw' = [SwStart EXCEPT !.pc = "dead"]
            /\ ev' = Ev("sweep_died")
            /\ UNCHANGED <<notified, clean>>
       ELSE /\ sw' = [SwStart EXCEPT !.pc = "loop", !.watchdogs = load_watchdogs(file),
                                     !.now = clock, !.i = 1]
            /\ Forget(IF \E p \in DOMAIN cmd : cmd[p].pc # "idle" THEN Channels ELSE {})
            /\ ev' = Ev("begin")
    /\ UNCHANGED <<libVars, torn, file, clock, cmd, nextChan, seeded, checked>>

NextWatchdog(s) == [[s EXCEPT !.pc = "loop", !.i = s.i + 1] EXCEPT !.batch = 0]

OnCheckError_Abort(s) == [SwStart EXCEPT !.pc = "sleep"]

\* lines 526-527: the exception is printed and the loop goes on with the next
\* watchdog
OnCheckError(s) == SwLocals @@ NextWatchdog(s)

\* lines 472-494, a watchdog that is not due
SweepSkip ==
    /\ sw.pc = "loop"
    /\ sw.i <= Len(sw.watchdogs)
    /\ ~Due(sw.watchdogs[sw.i], sw.now)
    /\ sw' = (SwLocals @@ NextWatchdog(sw))
    /\ ev' = [Ev("skip") EXCEPT !.chan = sw.watchdogs[sw.i].channel_id]
    /\ seeded' = NoSeed
    /\ UNCHANGED <<libVars, torn, file, clock, cmd, nextChan, notified, clean, checked>>

\* lines 523-524
Checked(ws, i, seen, now) ==
    [ws EXCEPT ![i] = [[ws[i] EXCEPT !.last_seen_ids = seen]
                             EXCEPT !.last_check = IsoFormatZ(now)]]

\* lines 496-527 up to the call of post_to_webhook, for a watchdog that is due
SweepCheck ==
    /\ sw.pc = "loop"
    /\ sw.i <= Len(sw.watchdogs)
    /\ Due(sw.watchdogs[sw.i], sw.now)
    /\ \E crawl \in CheckCrawls :
         LET w == sw.watchdogs[sw.i]
             all_listings == crawl.results
             last_seen_ids == w.last_seen_ids
             e == [Ev("check") EXCEPT !.chan = w.channel_id,
                                      !.fetch_failed = crawl.fetch_failed]
         IN IF DiffRaises(all_listings)
            THEN \* except Exception (526-527)
                 /\ sw' = OnCheckError(sw)
                 /\ ev' = [e EXCEPT !.act = "check_raised"]
                 /\ UNCHANGED <<file, checked>>
            ELSE LET new_listings == NewListings(all_listings, last_seen_ids)
                     locals == [all_listings |-> all_listings,
                                new_listings |-> new_listings,
                                last_seen_ids |-> last_seen_ids,
                                current_page_ids |-> CurrentPageIds(all_listings),
                                batch |-> 0]
                 IN IF new_listings # <<>>
                    THEN /\ sw' = (locals @@ [sw EXCEPT !.pc = "post"])
                         /\ ev' = [e EXCEPT !.act = "check_new"]
                         /\ UNCHANGED <<file, checked>>
                    ELSE LET ws == Checked(sw.watchdogs, sw.i, w.last_seen_ids, sw.now)
                         IN /\ sw' = (locals @@ [NextWatchdog(sw) EXCEPT !.watchdogs = ws])
                            /\ file' = ws
                            /\ checked' = [checked EXCEPT ![w.channel_id] = ws[sw.i].last_check]
                            /\ ev' = [e EXCEPT !.act = "check_done"]
    /\ seeded' = NoSeed
    /\ UNCHANGED <<libVars, torn, clock, cmd, nextChan, notified, clean>>

PostRaises_Uncaught(outcome) == outcome = "exception"

\* post_to_webhook 142-155: try/except around the delivery of one chunk, so
\* no delivery outcome leaves post_to_webhook as an exception
PostRaises(outcome) == FALSE

\* post_to_webhook (129-156): one pass of the loop over the chunks of 10
PostBatch ==
    /\ sw.pc = "post"
    /\ sw.batch < Len(sw.new_listings)
    /\ \E outcome \in Outcomes :
         LET w == sw.watchdogs[sw.i]
             chunk == SubSeq(sw.new_listings, sw.batch + 1,
                             Min(sw.batch + BATCH_SIZE, Len(sw.new_listings)))
             e == [ev EXCEPT !.act = "post", !.outcome = outcome]
         IN /\ notified' = [notified EXCEPT ![w.webhook_url] =
                               IF w.webhook_url \in clean THEN @ \cup Ids(chunk) ELSE @]
            /\ IF PostRaises(outcome)
               THEN \* except Exception (526-527)
                    /\ sw' = NextWatchdog(sw)
                    /\ ev' = [e EXCEPT !.act = "check_raised"]
               ELSE /\ sw' = [sw EXCEPT !.batch = sw.batch + BATCH_SIZE]
                    /\ ev' = e
    /\ UNCHANGED <<libVars, torn, file, clock, cmd, nextChan, clean, seeded, checked>>

\* lines 517-524, after post_to_webhook has returned
SweepCommit ==
    /\ sw.pc = "post"
    /\ sw.batch >= Len(sw.new_listings)
    /\ LET updated_ids == UpdatedIds(sw.last_seen_ids, sw.current_page_ids)
           ws == Checked(sw.watchdogs, sw.i, updated_ids, sw.now)
       IN /\ sw' = [NextWatchdog(sw) EXCEPT !.watchdogs = ws]
          /\ file' = ws
          /\ checked' = [checked EXCEPT ![ws[sw.i].channel_id] = ws[sw.i].last_check]
    /\ ev' = [ev EXCEPT !.act = "check_done"]
    /\ UNCHANGED <<libVars, torn, clock, cmd, nextChan, notified, clean, seeded>>

\* line 530
SweepEnd ==
    /\ sw.pc = "loop"
    /\ sw.i > Len(sw.watchdogs)
    /\ sw' = [SwStart EXCEPT !.pc = "sleep"]
    /\ ev' = Ev("end")
    /\ UNCHANGED <<libVars, torn, file, clock, cmd, nextChan, notified, clean, seeded, checked>>

\* the process dies and is started again (on_ready 547-555 creates the sweep
\* task anew): the file is all that survives.  A kill before or after a save
\* leaves the file as it is; a kill inside save_watchdogs (50-52), after
\* open(..., 'w') has truncated the file and before the text has reached it,
\* leaves a file that json.load cannot read.
Crash ==
    LET InSweep == sw.pc \in {"loop", "post"}
        \* the code at this point can go on to a call of save_watchdogs
        SweepSaves ==
            \/ sw.pc = "post" /\ sw.batch >= Len(sw.new_listings)
            \/ /\ sw.pc = "loop"
               /\ sw.i <= Len(sw.watchdogs)
               /\ Due(sw.watchdogs[sw.i], sw.now)
               /\ \E crawl \in CheckCrawls :
                     /\ ~DiffRaises(crawl.results)
                     /\ NewListings(crawl.results, sw.watchdogs[sw.i].last_seen_ids) = <<>>
        CommandSaves ==
            \/ \E p \in DOMAIN cmd : cmd[p].pc \in {"add_save", "reset_scan"}
            \/ SweepIdle /\ ~torn /\ file # <<>>
    IN /\ sw' = SwStart
       /\ cmd' = [p \in DOMAIN cmd |-> CmdIdle]
       /\ \/ /\ UNCHANGED <<file, torn, checked>>
             /\ Forget(IF InSweep THEN Channels ELSE {})
             /\ ev' = Ev("crash")
          \/ /\ SweepSaves \/ CommandSaves
             /\ file' = <<>>
             /\ torn' = TRUE
             /\ checked' = [c \in Channels |-> Null]
             /\ Forget(Channels)
             /\ ev' = [Ev("crash") EXCEPT !.outcome = "torn"]
       /\ seeded' = NoSeed
       /\ UNCHANGED <<libVars, clock, nextChan>>

(***************************************************************************)
(* Command handlers.  Each action is the code between two awaits.          *)
(***************************************************************************)
\* add_watchdog 180-201: load, reject a watched url, choose the interval
AddLoadOf(p, cpds) ==
    /\ SweepIdle
    /\ cmd[p].pc = "idle"
    /\ nextChan <= MaxChannels
    /\ \E url \in Urls, checks_per_day \in cpds :
         LET watchdogs == load_watchdogs(file)
         IN IF torn
            THEN \* json.load raises at line 180
                 /\ ev' = Ev("load_raised")
                 /\ UNCHANGED cmd
            ELSE
            IF find_watchdog_by_url(watchdogs, url) # 0
            THEN /\ ev' = Ev("add_rejected")
                 /\ UNCHANGED cmd
            ELSE /\ cmd' = [cmd EXCEPT ![p] =
                        [CmdIdle EXCEPT !.pc = "add_scan", !.watchdogs = watchdogs,
                                        !.url = url, !.checks_per_day = checks_per_day,
                                        !.interval_minutes = IntervalOf(checks_per_day)]]
                 /\ ev' = Ev("add_load")
    /\ seeded' = NoSeed
    /\ UNCHANGED <<libVars, torn, file, clock, sw, nextChan, notified, clean, checked>>

AddLoad(p) == AddLoadOf(p, AddCpdInputs)

\* add_watchdog 203-212: the initial deep scan
AddScan(p) ==
    /\ SweepIdle
    /\ cmd[p].pc = "add_scan"
    /\ \E crawl \in SeedCrawls :
         LET initial_listings == crawl.results
             e == [Ev("add_scan") EXCEPT !.fetch_failed = crawl.fetch_failed]
         IN IF DiffRaises(initial_listings)
            THEN \* except Exception (245-246)
                 /\ cmd' = [cmd EXCEPT ![p] = CmdIdle]
                 /\ ev' = [e EXCEPT !.act = "add_raised"]
            ELSE /\ cmd' = [cmd EXCEPT ![p] =
                        [@ EXCEPT !.pc = "add_save",
                                  !.initial_listings = initial_listings]]
                 /\ ev' = e
    /\ seeded' = NoSeed
    /\ UNCHANGED <<libVars, torn, file, clock, sw, nextChan, notified, clean, checked>>

NewWatchdog_Stamped(url, channel_id, initial_ids, interval_minutes) ==
    [url |-> url, channel_id |-> channel_id, webhook_url |-> channel_id,
     last_seen_ids |-> initial_ids, interval_minutes |-> interval_minutes,
     last_check |-> IsoFormatZ(0)]

NewWatchdog(url, channel_id, initial_ids, interval_minutes) ==
    [url |-> url, channel_id |-> channel_id, webhook_url |-> channel_id,
     last_seen_ids |-> initial_ids, interval_minutes |-> interval_minutes,
     last_check |-> Null]

\* add_watchdog 212-244: channel and webhook exist, append and save
AddSave(p) ==
    /\ SweepIdle
    /\ cmd[p].pc = "add_save"
    /\ nextChan <= MaxChannels
    /\ LET c == cmd[p]
           initial_ids == InitialIds(c.initial_listings)
           new_watchdog == NewWatchdog(c.url, nextChan, initial_ids, c.interval_minutes)
       IN /\ file' = Append(c.watchdogs, new_watchdog)
          /\ seeded' = [chan |-> nextChan, listings |-> c.initial_listings]
          /\ ev' = [Ev("add_saved") EXCEPT !.chan = nextChan,
                                              !.checks_per_day = c.checks_per_day]
    /\ nextChan' = nextChan + 1
    /\ clean' = clean \cup {nextChan}
    /\ cmd' = [cmd EXCEPT ![p] = CmdIdle]
    /\ UNCHANGED <<libVars, torn, clock, sw, notified, checked>>

\* reset_watchdog 389-402
ResetLoad(p) ==
    /\ SweepIdle
    /\ cmd[p].pc = "idle"
    /\ \E channel \in Channels :
         LET watchdogs == load_watchdogs(file)
         IN IF torn
            THEN \* json.load raises at line 389
                 /\ ev' = Ev("load_raised")
                 /\ UNCHANGED cmd
            ELSE
            IF find_watchdog_by_channel(watchdogs, channel) = 0
            THEN /\ ev' = Ev("reset_rejected")
                 /\ UNCHANGED cmd
            ELSE /\ cmd' = [cmd EXCEPT ![p] =
                        [CmdIdle EXCEPT !.pc = "reset_scan", !.watchdogs = watchdogs,
                                        !.channel_id = channel]]
                 /\ ev' = [Ev("reset_load") EXCEPT !.chan = channel]
    /\ seeded' = NoSeed
    /\ UNCHANGED <<libVars, torn, file, clock, sw, nextChan, notified, clean, checked>>

\* reset_watchdog 404-432
ResetScan(p) ==
    /\ SweepIdle
    /\ cmd[p].pc = "reset_scan"
    /\ \E crawl \in SeedCrawls :
         LET c == cmd[p]
             k == find_watchdog_by_channel(c.watchdogs, c.channel_id)
             initial_listings == crawl.results
             e == [Ev("reset_saved") EXCEPT !.chan = c.channel_id,
                                            !.fetch_failed = crawl.fetch_failed]
         IN IF DiffRaises(initial_listings)
            THEN /\ ev' = [e EXCEPT !.act = "reset_raised"]
                 /\ seeded' = NoSeed
                 /\ UNCHANGED <<file, clean, notified, checked>>
            ELSE /\ file' = [c.watchdogs EXCEPT ![k] =
                               [[@ EXCEPT !.last_seen_ids = InitialIds(initial_listings)]
                                   EXCEPT !.last_check = Null]]
                 /\ Forget({c.channel_id})
                 /\ checked' = [checked EXCEPT ![c.channel_id] = Null]
                 /\ seeded' = [chan |-> c.channel_id, listings |-> initial_listings]
                 /\ ev' = e
    /\ cmd' = [cmd EXCEPT ![p] = CmdIdle]
    /\ UNCHANGED <<libVars, torn, clock, sw, nextChan>>

RemoveAt(ws, k) == [j \in 1..(Len(ws) - 1) |-> IF j < k THEN ws[j] ELSE ws[j + 1]]

\* remove_watchdog 262-283
RemoveWatchdog ==
    /\ SweepIdle
    /\ \E channel \in Channels :
         LET watchdogs == load_watchdogs(file)
             k == find_watchdog_by_channel(watchdogs, channel)
         IN IF torn
            THEN \* json.load raises at line 262
                 /\ ev' = Ev("load_raised")
                 /\ UNCHANGED <<file, notified, clean, checked>>
            ELSE /\ k # 0
                 /\ file' = RemoveAt(watchdogs, k)
                 /\ Forget({channel})
                 /\ checked' = [checked EXCEPT ![channel] = Null]
                 /\ ev' = [Ev("removed") EXCEPT !.chan = channel]
    /\ seeded' = NoSeed
    /\ UNCHANGED <<libVars, torn, clock, sw, cmd, nextChan>>

\* set_watchdog_interval 361-374
SetIntervalOf(cpds) ==
    /\ SweepIdle
    /\ \E channel \in Channels, checks_per_day \in cpds :
         LET watchdogs == load_watchdogs(file)
             k == find_watchdog_by_channel(watchdogs, channel)
         IN IF torn
            THEN \* json.load raises at line 361
                 /\ ev' = Ev("load_raised")
                 /\ UNCHANGED <<file, checked>>
            ELSE /\ k # 0
                 /\ file' = [watchdogs EXCEPT ![k].interval_minutes =
                                                 IntervalFromCpd(checks_per_day)]
                 /\ checked' = [checked EXCEPT ![channel] = Null]
                 /\ ev' = [Ev("interval_set") EXCEPT !.chan = channel,
                                                     !.checks_per_day = checks_per_day]
    /\ seeded' = NoSeed
    /\ UNCHANGED <<libVars, torn, clock, sw, cmd, nextChan, notified, clean>>

SetWatchdogInterval == SetIntervalOf(CpdInputs)

Next ==
    \/ Tick
    \/ SweepBegin
    \/ SweepSkip
    \/ SweepCheck
    \/ PostBatch
    \/ SweepCommit
    \/ SweepEnd
    \/ Crash
    \/ \E p \in Procs : AddLoad(p)
    \/ \E p \in Procs : AddScan(p)
    \/ \E p \in Procs : AddSave(p)
    \/ \E p \in Procs : ResetLoad(p)
    \/ \E p \in Procs : ResetScan(p)
    \/ RemoveWatchdog
    \/ SetWatchdogInterval

Spec == Init /\ [][Next]_vars

\* the bot at rest on an empty registry
InitLib == Init /\ file = <<>>

(***************************************************************************)
(* The sweep and the handlers add_watchdog, set_watchdog_interval and      *)
(* remove_watchdog, started on a registry that already holds a watchdog    *)
(* for another search, checked at time 0 by an earlier run.                *)
(***************************************************************************)
OtherWatchdog ==
    [url |-> "B", channel_id |-> 1, webhook_url |-> 1, last_seen_ids |-> {"1"},
     interval_minutes |-> IntervalFromCpd(96), last_check |-> IsoFormatZ(0)]

InitOther ==
    /\ file = <<OtherWatchdog>>
    /\ torn = FALSE
    /\ clock = 0
    /\ sw = SwStart
    /\ cmd = [p \in Procs |-> CmdIdle]
    /\ nextChan = Len(file) + 1
    /\ notified = [c \in Channels |-> {}]
    /\ clean = { file[k].channel_id : k \in 1..Len(file) }
    /\ checked = Recorded(file)
    /\ seeded = NoSeed
    /\ ev = Ev("init")
    /\ post = PostIdle
    /\ scrape = ScrapeIdle
    /\ call = NoCall

NextOther ==
    \/ Tick
    \/ SweepBegin
    \/ SweepSkip
    \/ SweepCheck
    \/ PostBatch
    \/ SweepCommit
    \/ SweepEnd
    \/ \E p \in Procs : AddLoad(p)
    \/ \E p \in Procs : AddScan(p)
    \/ \E p \in Procs : AddSave(p)
    \/ RemoveWatchdog
    \/ SetWatchdogInterval

SpecOther == InitOther /\ [][NextOther]_vars

(***************************************************************************)
(* Two interactions in flight at once while the sweep sleeps, on a         *)
(* registry that starts empty or with one watchdog.                        *)
(***************************************************************************)
TwoProcs == {"p1", "p2"}

InitTwo ==
    /\ file \in {<<>>, <<LegacyWatchdog>>}
    /\ torn = FALSE
    /\ clock = 0
    /\ sw = SwStart
    /\ cmd = [p \in TwoProcs |-> CmdIdle]
    /\ nextChan = Len(file) + 1
    /\ notified = [c \in Channels |-> {}]
    /\ clean = { file[k].channel_id : k \in 1..Len(file) }
    /\ checked = Recorded(file)
    /\ seeded = NoSeed
    /\ ev = Ev("init")
    /\ post = PostIdle
    /\ scrape = ScrapeIdle
    /\ call = NoCall

NextTwo ==
    \/ \E p \in TwoProcs : AddLoad(p)
    \/ \E p \in TwoProcs : AddScan(p)
    \/ \E p \in TwoProcs : AddSave(p)
    \/ \E p \in TwoProcs : ResetLoad(p)
    \/ \E p \in TwoProcs : ResetScan(p)
    \/ RemoveWatchdog

SpecTwo == InitTwo /\ [][NextTwo]_vars

(***************************************************************************)
(* add_watchdog and set_watchdog_interval with every checks_per_day that   *)
(* Discord lets through, on a registry that starts empty.                  *)
(***************************************************************************)
NextCpd ==
    \/ \E p \in Procs : AddLoadOf(p, AllCpd \cup {NoCpd})
    \/ \E p \in Procs : AddScan(p)
    \/ \E p \in Procs : AddSave(p)
    \/ SetIntervalOf(AllCpd)

SpecCpd == InitLib /\ [][NextCpd]_vars

(***************************************************************************)
(* The sweep alone over a registry of two watchdogs: B, saved at time 0    *)
(* with /interval 96, and A as add_watchdog leaves it, in either order.    *)
(***************************************************************************)
SweepFiles ==
    LET added == NewWatchdog("A", 2, {}, DEFAULT_INTERVAL_MINUTES)
    IN { <<OtherWatchdog, added>>, <<added, OtherWatchdog>> }

InitSweep ==
    /\ file \in SweepFiles
    /\ torn = FALSE
    /\ clock = 0
    /\ sw = SwStart
    /\ cmd = [p \in Procs |-> CmdIdle]
    /\ nextChan = Len(file) + 1
    /\ notified = [c \in Channels |-> {}]
    /\ clean = { file[k].channel_id : k \in 1..Len(file) }
    /\ checked = Recorded(file)
    /\ seeded = NoSeed
    /\ ev = Ev("init")
    /\ post = PostIdle
    /\ scrape = ScrapeIdle
    /\ call = NoCall

NextSweep ==
    \/ Tick
    \/ SweepBegin
    \/ SweepSkip
    \/ SweepCheck
    \/ PostBatch
    \/ SweepCommit
    \/ SweepEnd

SpecSweep == InitSweep /\ [][NextSweep]_vars

(***************************************************************************)
(* post_to_webhook (bot.py 129-156), one delivery attempt at a time.       *)
(*  post.listings     the new listings handed over, named 1..n             *)
(*  post.messages     one formatted line per listing                       *)
(*  post.i            the loop variable of range(0, len(messages), 10)     *)
(*  post.retry_after  what line 145 read from the 429 response             *)
(*  post.log          every requests.post made so far                      *)
(***************************************************************************)
\* format_listing_message: the line of one listing
FormatListingMessage(l) == [line |-> l]

Messages(listings) == [k \in 1..Len(listings) |-> FormatListingMessage(listings[k])]

\* what requests.post does: it raises, or returns a response with a status
Responses ==
    { [raised |-> FALSE, status_code |-> c] : c \in {200, 204, RATE_LIMITED, 500} }
       \cup { [raised |-> TRUE, status_code |-> 0] }

\* the body of a 429 response: not JSON (response.json() raises), JSON without
\* retry_after, JSON with retry_after
Bodies ==
    { [json |-> FALSE, has |-> FALSE, retry_after |-> 0],
      [json |-> TRUE, has |-> FALSE, retry_after |-> 0],
      [json |-> TRUE, has |-> TRUE, retry_after |-> 2] }

\* response.json().get('retry_after', 5)
RetryAfter(body) == IF body.has THEN body.retry_after ELSE DEFAULT_RETRY_AFTER

Chunk_Eleven(messages, i) ==
    SubSeq(messages, i + 1, Min(i + BATCH_SIZE + 1, Len(messages)))

\* messages[i:i+10]
Chunk(messages, i) == SubSeq(messages, i + 1, Min(i + BATCH_SIZE, Len(messages)))

ShouldRetry_AnyFailure(response) == response.status_code \notin {200, 204}

\* line 144
ShouldRetry(response) == response.status_code = RATE_LIMITED

Attempt(i, chunk, attempt, waited, response) ==
    [i |-> i, chunk |-> chunk, attempt |-> attempt, waited |-> waited,
     response |-> response]

\* lines 131-136: the call, with n new listings
PostCall ==
    /\ post.pc = "idle"
    /\ \E n \in 0..MaxNew :
         LET listings == [k \in 1..n |-> k]
         IN post' = [pc |-> IF listings = <<>> THEN "returned" ELSE "send",
                     listings |-> listings,
                     messages |-> IF listings = <<>> THEN <<>> ELSE Messages(listings),
                     i |-> 0, retry_after |-> 0, log |-> <<>>]
    /\ UNCHANGED <<botVars, scrape, call>>

\* lines 140-144 and 150-155: the first delivery of the chunk at i
PostSend ==
    /\ post.pc = "send"
    /\ \E response \in Responses :
         LET chunk == Chunk(post.messages, post.i)
         IN post' = [post EXCEPT
                !.log = Append(@, Attempt(post.i, chunk, 1, 0, response)),
                !.pc = IF ~response.raised /\ ShouldRetry(response)
                       THEN "backoff" ELSE "sleep"]
    /\ UNCHANGED <<botVars, scrape, call>>

\* lines 145-147: read retry_after and wait; a body that is not JSON raises
PostBackoff ==
    /\ post.pc = "backoff"
    /\ \E body \in Bodies :
         IF body.json
         THEN post' = [post EXCEPT !.retry_after = RetryAfter(body), !.pc = "retry"]
         ELSE post' = [post EXCEPT !.pc = "sleep"]
    /\ UNCHANGED <<botVars, scrape, call>>

\* lines 149-155: the one retry
PostRetry ==
    /\ post.pc = "retry"
    /\ \E response \in Responses :
         LET chunk == Chunk(post.messages, post.i)
         IN post' = [post EXCEPT
                !.log = Append(@, Attempt(post.i, chunk, 2, post.retry_after, response)),
                !.pc = "sleep"]
    /\ UNCHANGED <<botVars, scrape, call>>

\* line 156 and the next pass of the loop of line 139
PostNext ==
    /\ post.pc = "sleep"
    /\ LET i == post.i + BATCH_SIZE
       IN post' = [post EXCEPT !.i = i, !.retry_after = 0,
                               !.pc = IF i < Len(post.messages) THEN "send"
                                      ELSE "returned"]
    /\ UNCHANGED <<botVars, scrape, call>>

NextPost ==
    \/ PostCall
    \/ PostSend
    \/ PostBackoff
    \/ PostRetry
    \/ PostNext

SpecPost == InitLib /\ [][NextPost]_vars

(***************************************************************************)
(* build_next_page_url_sreality (scraper.py 189-224).  A URL is the part   *)
(* before the '?' and the query, a sequence of (key, value) pairs.         *)
(***************************************************************************)
Digits == <<"0", "1", "2", "3", "4", "5", "6", "7", "8", "9">>

\* str(n) of a number n >= 0
RECURSIVE Str(_)
Str(n) == IF n < 10 THEN Digits[n + 1] ELSE Str(n \div 10) \o Digits[(n % 10) + 1]

\* the decimal texts of the numbers a page parameter holds in the model
NumeralOf == [n \in 0..MaxNumeral |-> Str(n)]

\* int(text): leading zeros are read over, ValueError on a text that is not a
\* number
IntOf(v) ==
    IF v = "03" THEN [raised |-> FALSE, n |-> 3]
    ELSE IF \E n \in DOMAIN NumeralOf : NumeralOf[n] = v
    THEN [raised |-> FALSE, n |-> CHOOSE n \in DOMAIN NumeralOf : NumeralOf[n] = v]
    ELSE [raised |-> TRUE, n |-> 0]

\* parse_qs(query, keep_blank_values=True): the keys in the order of their
\* first appearance, each with the list of its values
RECURSIVE QsKeys(_)
QsKeys(query) ==
    IF query = <<>> THEN <<>>
    ELSE LET key == Head(query)[1]
         IN <<key>> \o SelectSeq(QsKeys(Tail(query)), LAMBDA k : k # key)

QsValues(query, key) ==
    LET pairs == SelectSeq(query, LAMBDA pr : pr[1] = key)
    IN [j \in 1..Len(pairs) |-> pairs[j][2]]

\* lines 219-221
RECURSIVE PairsOf(_, _)
PairsOf(query, keys) ==
    IF keys = <<>> THEN <<>>
    ELSE LET values == QsValues(query, Head(keys))
         IN [j \in 1..Len(values) |-> <<Head(keys), values[j]>>]
               \o PairsOf(query, Tail(keys))

build_next_page_url_sreality_Same(current_url, page_num) == current_url

build_next_page_url_sreality_Counter(current_url, page_num) ==
    [current_url EXCEPT !.query =
        << <<"strana", Str(page_num + 1)>> >>
           \o SelectSeq(current_url.query, LAMBDA pr : pr[1] # "strana")]

\* the except clause of scrape_all_pages (390-391) is never entered: none of
\* the steps below raises anything but the ValueError caught at line 206
build_next_page_url_sreality(current_url, page_num) ==
    LET query == current_url.query
        keys == QsKeys(query)
        has_strana == \E j \in 1..Len(keys) : keys[j] = "strana"
        first == QsValues(query, "strana")[1]
        parsed == IntOf(first)
        cur_page ==
            IF has_strana
            THEN IF first = "" THEN page_num
                 ELSE IF parsed.raised THEN page_num ELSE parsed.n
            ELSE page_num
        next_page == cur_page + 1
        others == SelectSeq(keys, LAMBDA k : k # "strana")
        ordered_pairs == << <<"strana", Str(next_page)>> >> \o PairsOf(query, others)
    IN [current_url EXCEPT !.query = ordered_pairs]

(***************************************************************************)
(* scrape_all_pages (scraper.py 347-431), one pass of its loop at a time.  *)
(*  scrape.server       what the site answers to the 1st, 2nd, ... request *)
(*  scrape.current      the URL the next pass fetches                      *)
(*  scrape.urls         the URLs handed to fetch_page so far               *)
(*  scrape.all_results  the records collected so far                       *)
(*  scrape.fetched      the number of calls of fetch_page so far           *)
(*  scrape.stop         why the loop was left                              *)
(*  scrape.returned     the list handed back to the caller                 *)
(***************************************************************************)
\* a site that answers every page of the search, with no results
LongTail == [k \in 1..(SEED_MAX_PAGES + 1) |-> <<>>]

OldUrl == <<"http://old">>

\* a record with no id, hash or seoUrl on two pages around a repeated record;
\* records that already carry a listingUrl
SpecialServers ==
    { << <<Rec("1", None, None), Rec(None, None, None)>>,
         <<Rec(None, None, None), Rec("1", None, None)>> >>,
      << <<SetField(Rec("1", None, None), "listingUrl", OldUrl)>> >>,
      << <<SetField(Rec(None, None, None), "listingUrl", OldUrl)>> >> }

ScrapeServers == Servers \cup {LongTail} \cup SpecialServers

SearchUrl(query) == [base |-> "https://www.sreality.cz/hledani", query |-> query]

\* the search URLs a crawl starts from: without strana, on page 3, with a
\* strana that is not a number or is empty, with strana written twice
StartUrls ==
    { SearchUrl(<<>>),
      SearchUrl(<< <<"a", "3">>, <<"strana", "3">> >>),
      SearchUrl(<< <<"strana", "03">> >>),
      SearchUrl(<< <<"strana", "x">>, <<"a", "3">> >>),
      SearchUrl(<< <<"strana", "">> >>),
      SearchUrl(<< <<"strana", "2">>, <<"strana", "7">> >>) }

\* lines 347-351
ScrapeCall ==
    /\ scrape.pc = "idle"
    /\ \E server \in ScrapeServers, max_pages \in {CHECK_MAX_PAGES, SEED_MAX_PAGES},
          start_url \in StartUrls :
         scrape' = [pc |-> "loop", server |-> server, max_pages |-> max_pages,
                    start_url |-> start_url, current |-> start_url, urls |-> <<>>,
                    page_num |-> 1, all_results |-> <<>>, seen_ids |-> {},
                    fetched |-> 0, fetch_failed |-> FALSE, stop |-> "",
                    returned |-> <<>>]
    /\ UNCHANGED <<botVars, post, call>>

\* lines 356-402: one pass of the loop
ScrapePage ==
    /\ scrape.pc = "loop"
    /\ WithinCap(scrape.page_num, scrape.max_pages)
    /\ IF FetchRaises(scrape.server, scrape.page_num)
       THEN scrape' = [scrape EXCEPT !.fetched = @ + 1, !.fetch_failed = TRUE,
                                     !.urls = Append(@, scrape.current),
                                     !.all_results = OnFetchError(@),
                                     !.stop = "exception", !.pc = "break"]
       ELSE LET a == Aggregate(scrape.server[scrape.page_num], scrape.all_results,
                               scrape.seen_ids)
                next_url == build_next_page_url_sreality(scrape.current, scrape.page_num)
                s == [scrape EXCEPT !.fetched = @ + 1,
                                    !.urls = Append(@, scrape.current),
                                    !.all_results = a.all_results,
                                    !.seen_ids = a.seen_ids]
            IN IF next_url = scrape.current
               THEN \* lines 396-398
                    scrape' = [s EXCEPT !.stop = "same_url", !.pc = "break"]
               ELSE \* lines 400-402
                    scrape' = [s EXCEPT !.current = next_url, !.page_num = @ + 1]
    /\ UNCHANGED <<botVars, post, call>>

\* lines 404-431, after the loop has ended
ScrapeReturn ==
    /\ \/ scrape.pc = "break"
       \/ scrape.pc = "loop" /\ ~WithinCap(scrape.page_num, scrape.max_pages)
    /\ scrape' = [scrape EXCEPT !.returned = InjectAll(scrape.all_results),
                                !.stop = IF scrape.pc = "break" THEN @ ELSE "cap",
                                !.pc = "returned"]
    /\ UNCHANGED <<botVars, post, call>>

NextScrape ==
    \/ ScrapeCall
    \/ ScrapePage
    \/ ScrapeReturn

SpecScrape == InitLib /\ [][NextScrape]_vars

QueryKeys == {"strana", "a", "b"}

QueryValues == {"", "3", "x"}

Queries == SeqsUpTo(QueryKeys \X QueryValues, MaxPairs)

PageNums == 1..3

BuildNextPageUrl ==
    /\ call.fn = "none"
    /\ \E query \in Queries, page_num \in PageNums :
         LET current_url == SearchUrl(query)
         IN call' = [fn |-> "build_next_page_url_sreality",
                     current_url |-> current_url, page_num |-> page_num,
                     result |-> build_next_page_url_sreality(current_url, page_num)]
    /\ UNCHANGED <<botVars, post, scrape>>

\* the records handed to get_listing_url
Categories ==
    { [type |-> NotDict, main |-> NotDict, sub |-> NotDict],
      [type |-> [isdict |-> TRUE, name |-> "Prodej"],
       main |-> [isdict |-> TRUE, name |-> "Byty"],
       sub |-> [isdict |-> TRUE, name |-> "3+kk"]],
      [type |-> [isdict |-> TRUE, name |-> "!!!"],
       main |-> [isdict |-> TRUE, name |-> "Chaty"],
       sub |-> [isdict |-> TRUE, name |-> None]] }

Localities ==
    { NotDict,
      [isdict |-> TRUE, citySeoName |-> "praha", city |-> "Praha 2"],
      [isdict |-> TRUE, city |-> "Praha 2", cityPart |-> "Vinohrady"] }

NestedSeo ==
    { NotDict,
      [isdict |-> TRUE, href |-> "/n"],
      [isdict |-> TRUE, url |-> Obj] }

Items ==
    { [isdict |-> TRUE, id |-> i, hash |-> h, seoUrl |-> s, url |-> u, seo |-> n,
       categoryTypeCb |-> c.type, categoryMainCb |-> c.main, categorySubCb |-> c.sub,
       locality |-> l] :
         i \in {None, "7", "0"}, h \in {None, "h"},
         s \in {None, "", "/detail/x", "http://abs", Obj}, u \in {None, "/u"},
         n \in NestedSeo, c \in Categories, l \in Localities }
       \cup {NotDict}

GetListingUrl ==
    /\ call.fn = "none"
    /\ \E item \in Items :
         call' = [fn |-> "get_listing_url", item |-> item,
                  result |-> get_listing_url(item)]
    /\ UNCHANGED <<botVars, post, scrape>>

\* one call of load_watchdogs (bot.py 32-47) at time now, on a registry file of
\* at most MaxRegistry records; a record holds or lacks each of the four
\* fields, a field that is held has any of the values listed
LoadWatchdogs ==
    LET Held == [interval_minutes : {15}, created_at : {IsoFormatZ(0)},
                 created_by : {Null, [k |-> "id", t |-> 7]},
                 last_check : {Null, IsoFormatZ(0), Garbage}]
        Lacking(r, F) == [f \in DOMAIN r \ F |-> r[f]]
        Records == { Fill(LegacyWatchdog, Lacking(h, F)) : h \in Held, F \in SUBSET DOMAIN DefaultsAt(0) }
    IN /\ call.fn = "none"
       /\ \E data \in SeqsUpTo(Records, MaxRegistry), now \in {0} \cup TimeSteps :
            call' = [fn |-> "load_watchdogs", data |-> data, now |-> now,
                     result |-> [k \in 1..Len(data) |-> Fill(data[k], DefaultsAt(now))]]
       /\ UNCHANGED <<botVars, post, scrape>>

NextCalls ==
    \/ BuildNextPageUrl
    \/ GetListingUrl
    \/ LoadWatchdogs

SpecCalls == InitLib /\ [][NextCalls]_vars

(***************************************************************************)
(* Parsed JSON (json.loads): a scalar, a list of values, or a dict, whose  *)
(* items are (key, value) pairs in the order of the text.                  *)
(***************************************************************************)
JScalar == [t |-> "scalar"]

JList(items) == [t |-> "list", items |-> items]

JDict(items) == [t |-> "dict", items |-> items]

RECURSIVE ConcatAll(_)
ConcatAll(seqs) == IF seqs = <<>> THEN <<>> ELSE Head(seqs) \o ConcatAll(Tail(seqs))

\* line 97: k == 'results' and isinstance(v, list) and v and isinstance(v[0], dict)
IsResultsList(k, v) ==
    /\ k = "results"
    /\ v.t = "list"
    /\ v.items # <<>>
    /\ v.items[1].t = "dict"

\* find_results_lists (scraper.py 93-104)
RECURSIVE find_results_lists(_)
find_results_lists(obj) ==
    IF obj.t = "dict"
    THEN ConcatAll([n \in 1..Len(obj.items) |->
            LET k == obj.items[n][1]
                v == obj.items[n][2]
            IN IF IsResultsList(k, v) THEN <<v>> ELSE find_results_lists(v)])
    ELSE IF obj.t = "list"
    THEN ConcatAll([n \in 1..Len(obj.items) |-> find_results_lists(obj.items[n])])
    ELSE <<>>

\* the values handed to find_results_lists: scalars, lists and dicts with the
\* keys results and a, up to a results list inside an element of a results list
JsonValues ==
    LET keys == {"results", "a"}
        DictsOver(V) ==
            { JDict(<< <<k, v>> >>) : k \in keys, v \in V }
            \cup { JDict(<< <<kk[1], v1>>, <<kk[2], v2>> >>) :
                     kk \in { pr \in keys \X keys : pr[1] # pr[2] }, v1 \in V, v2 \in V }
        flat == { JList(items) : items \in SeqsUpTo({JScalar, JDict(<<>>)}, 2) }
        depth1 == {JScalar, JDict(<<>>)} \cup flat \cup DictsOver({JScalar, JDict(<<>>)})
        depth2 == depth1 \cup { JList(<<v>>) : v \in depth1 } \cup DictsOver({JScalar} \cup flat)
        depth3 == depth2 \cup { JList(<<v>>) : v \in depth2 }
    IN depth3 \cup { JDict(<< <<k, v>> >>) : k \in keys, v \in depth3 }

(***************************************************************************)
(* Script text.  A text is a sequence of tokens: the braces and brackets,  *)
(* the comma, a key with its colon ("a:", "results:"), the number 1, the   *)
(* equals sign and the semicolon of an assignment, and "x" for any other   *)
(* text.  Only "{" and "}" hold a brace.                                   *)
(***************************************************************************)
\* json.loads: the value the whole text stands for, raised when it is not JSON.
\* A key given twice keeps its first place and takes the later value.
json_loads(text) ==
    LET n == Len(text)
        Tok(i) == IF i <= n THEN text[i] ELSE "<end>"
        Fail == [ok |-> FALSE, v |-> JScalar, next |-> 0]
        Put(items, k, v) ==
            IF \E m \in 1..Len(items) : items[m][1] = k
            THEN [m \in 1..Len(items) |-> IF items[m][1] = k THEN <<k, v>> ELSE items[m]]
            ELSE Append(items, <<k, v>>)
        RECURSIVE Value(_), Members(_, _), Elements(_, _)
        Value(i) ==
            CASE Tok(i) = "1" -> [ok |-> TRUE, v |-> JScalar, next |-> i + 1]
              [] Tok(i) = "{" ->
                    IF Tok(i + 1) = "}"
                    THEN [ok |-> TRUE, v |-> JDict(<<>>), next |-> i + 2]
                    ELSE Members(i + 1, <<>>)
              [] Tok(i) = "[" ->
                    IF Tok(i + 1) = "]"
                    THEN [ok |-> TRUE, v |-> JList(<<>>), next |-> i + 2]
                    ELSE Elements(i + 1, <<>>)
              [] OTHER -> Fail
        Members(i, items) ==
            IF Tok(i) \notin {"a:", "results:"} THEN Fail
            ELSE LET val == Value(i + 1)
                     key == IF Tok(i) = "a:" THEN "a" ELSE "results"
                     more == Put(items, key, val.v)
                 IN IF ~val.ok THEN Fail
                    ELSE IF Tok(val.next) = "}"
                    THEN [ok |-> TRUE, v |-> JDict(more), next |-> val.next + 1]
                    ELSE IF Tok(val.next) = "," THEN Members(val.next + 1, more)
                    ELSE Fail
        Elements(i, items) ==
            LET val == Value(i)
                more == Append(items, val.v)
            IN IF ~val.ok THEN Fail
               ELSE IF Tok(val.next) = "]"
               THEN [ok |-> TRUE, v |-> JList(more), next |-> val.next + 1]
               ELSE IF Tok(val.next) = "," THEN Elements(val.next + 1, more)
               ELSE Fail
        whole == Value(1)
    IN IF whole.ok /\ whole.next = n + 1
       THEN [raised |-> FALSE, value |-> whole.v]
       ELSE [raised |-> TRUE, value |-> JScalar]

\* t.find(tok, from): the first position at or after from, 0 when there is none
Find(t, tok, from) ==
    IF \E i \in from..Len(t) : t[i] = tok
    THEN CHOOSE i \in from..Len(t) : t[i] = tok /\ \A m \in from..(i - 1) : t[m] # tok
    ELSE 0

RECURSIVE BraceScan_Nested(_, _)
BraceScan_Nested(t, start) ==
    IF start = 0 THEN <<>>
    ELSE LET Depth(j) == Cardinality({ i \in start..j : t[i] = "{" })
                         - Cardinality({ i \in start..j : t[i] = "}" })
             closes == { j \in start..Len(t) : t[j] = "}" /\ Depth(j) = 0 }
         IN IF closes = {} THEN <<>>
            ELSE LET j == CHOOSE c \in closes : \A d \in closes : c <= d
                     parsed == json_loads(SubSeq(t, start, j))
                 IN << [start |-> start, end |-> j, parsed |-> parsed] >>
                    \o BraceScan_Nested(t, Find(t, "{", IF parsed.raised THEN start + 1
                                                                        ELSE j + 1))

\* lines 71-89: the blocks the brace counting cuts out of t, from the "{" at
\* start on, each with what json.loads made of it
RECURSIVE BraceScan(_, _)
BraceScan(t, start) ==
    IF start = 0 THEN <<>>
    ELSE LET Depth(j) == Cardinality({ i \in start..j : t[i] = "{" })
                         - Cardinality({ i \in start..j : t[i] = "}" })
             closes == { j \in start..Len(t) : t[j] = "}" /\ Depth(j) = 0 }
         IN IF closes = {} THEN <<>>
            ELSE LET j == CHOOSE c \in closes : \A d \in closes : c <= d
                     candidate == SubSeq(t, start, j)
                 IN << [start |-> start, end |-> j, parsed |-> json_loads(candidate)] >>
                    \o BraceScan(t, Find(t, "{", j + 1))

\* try_extract_json_from_text (scraper.py 46-90)
try_extract_json_from_text(text) ==
    LET t == text
        direct == json_loads(t)
        eq == { e \in 1..(Len(t) - 2) :
                  /\ t[e] = "=" /\ t[e + 1] = "{"
                  /\ \/ t[Len(t)] = "}"
                     \/ (t[Len(t)] = ";" /\ t[Len(t) - 1] = "}" /\ e + 1 < Len(t) - 1) }
        m == CHOOSE e \in eq : \A f \in eq : e <= f
        last == IF t[Len(t)] = ";" THEN Len(t) - 1 ELSE Len(t)
        assigned == json_loads(SubSeq(t, m + 1, last))
        blocks == BraceScan(t, Find(t, "{", 1))
        kept == SelectSeq(blocks, LAMBDA b : ~b.parsed.raised)
    IN IF t = <<>> THEN [by |-> "empty", blocks |-> <<>>, objs |-> <<>>]
       ELSE IF t[1] \in {"{", "["} /\ ~direct.raised
       THEN [by |-> "direct", blocks |-> <<>>, objs |-> <<direct.value>>]
       ELSE IF eq # {} /\ ~assigned.raised
       THEN [by |-> "assignment", blocks |-> <<>>, objs |-> <<assigned.value>>]
       ELSE [by |-> "braces", blocks |-> blocks,
             objs |-> [k \in 1..Len(kept) |-> kept[k].parsed.value]]

\* one call of try_extract_json_from_text, on a text of at most MaxText tokens
TryExtractJson ==
    /\ call.fn = "none"
    /\ \E text \in SeqsUpTo({"{", "}", "a:", "1", "x", "=", ";"}, MaxText) :
         call' = [fn |-> "try_extract_json_from_text", text |-> text,
                  result |-> try_extract_json_from_text(text)]
    /\ UNCHANGED <<botVars, post, scrape>>

FindResultsLists ==
    /\ call.fn = "none"
    /\ \E obj \in JsonValues :
         call' = [fn |-> "find_results_lists", obj |-> obj,
                  result |-> find_results_lists(obj)]
    /\ UNCHANGED <<botVars, post, scrape>>

(***************************************************************************)
(* extract_results_from_html (scraper.py 124-156).  A page is the sequence *)
(* of its script elements; of a script the model keeps the text, whether   *)
(* the text is longer than 200 characters, and whether it holds one of the *)
(* words of line 120 other than in a "results" key.                        *)
(***************************************************************************)
find_json_candidates_All(scripts) ==
    SelectSeq([i \in 1..Len(scripts) |-> [i |-> i, content |-> scripts[i].text]],
              LAMBDA c : c.content # <<>>)

\* find_json_candidates (107-121): the scripts with content, longer than 200
\* characters and holding one of the words
find_json_candidates(scripts) ==
    LET Matches(sc) == sc.keyword \/ \E n \in 1..Len(sc.text) : sc.text[n] = "results:"
    IN SelectSeq([i \in 1..Len(scripts) |-> [i |-> i, content |-> scripts[i].text]],
                 LAMBDA c : /\ c.content # <<>>
                            /\ scripts[c.i].long
                            /\ Matches(scripts[c.i]))

max_by_len_Last(lists) ==
    lists[CHOOSE k \in 1..Len(lists) :
             \A m \in 1..Len(lists) :
                /\ Len(lists[m].items) <= Len(lists[k].items)
                /\ m > k => Len(lists[m].items) < Len(lists[k].items)]

\* max(results_lists, key=lambda x: len(x)) (line 143): the first of the
\* longest lists
max_by_len(lists) ==
    lists[CHOOSE k \in 1..Len(lists) :
             \A m \in 1..Len(lists) :
                /\ Len(lists[m].items) <= Len(lists[k].items)
                /\ m < k => Len(lists[m].items) < Len(lists[k].items)]

\* lines 124-143: all results lists of all candidates, and the first of the
\* longest of them; no list at all gives the empty result
extract_results_from_html(scripts) ==
    LET candidates == find_json_candidates(scripts)
        results_lists ==
            ConcatAll([idx \in 1..Len(candidates) |->
                LET objs == try_extract_json_from_text(candidates[idx].content).objs
                IN ConcatAll([n \in 1..Len(objs) |-> find_results_lists(objs[n])])])
    IN [results_lists |-> results_lists,
        results |-> IF results_lists = <<>> THEN <<>> ELSE max_by_len(results_lists).items]

\* one call of extract_results_from_html, on a page of at most MaxScripts scripts
ExtractResults ==
    LET texts ==
          { <<>>,
            <<"x">>,
            <<"{", "a:", "1", "}">>,
            <<"{", "results:", "[", "1", "]", "}">>,
            <<"{", "results:", "[", "{", "}", "]", "}">>,
            <<"{", "results:", "[", "{", "a:", "1", "}", "]", "}">>,
            <<"{", "results:", "[", "{", "}", ",", "{", "}", "]", "}">>,
            <<"x", "=", "{", "a:", "{", "results:", "[", "{", "}", ",", "1", "]", "}", "}", ";">>,
            <<"{", "x", "}", "{", "results:", "[", "{", "}", "]", "}">>,
            <<"{", "results:", "[", "{", "}", "]", ",",
                   "a:", "{", "results:", "[", "{", "}", ",", "{", "}", "]", "}", "}">> }
        Scripts ==
          { sc \in [text : texts, long : BOOLEAN, keyword : BOOLEAN] :
               sc.text = <<>> => ~sc.keyword }
    IN /\ call.fn = "none"
       /\ \E scripts \in SeqsUpTo(Scripts, MaxScripts) :
            call' = [fn |-> "extract_results_from_html", scripts |-> scripts,
                     result |-> extract_results_from_html(scripts)]
       /\ UNCHANGED <<botVars, post, scrape>>

NextExtract ==
    \/ TryExtractJson
    \/ FindResultsLists
    \/ ExtractResults

SpecExtract == InitLib /\ [][NextExtract]_vars

(***************************************************************************)
(* Properties.                                                             *)
(***************************************************************************)
\* ListingIdentity: the content hash, else the provider-assigned id
Identity(l) == IF l.hash # None THEN l.hash ELSE l.id

Identities(listings) == { Identity(listings[k]) : k \in 1..Len(listings) } \ {None}

InSweepLoop == sw.pc = "loop" /\ sw.i <= Len(sw.watchdogs)

\* the record of channel c in a registry
Entry(ws, c) == ws[find_watchdog_by_channel(ws, c)]

\* the sweep has just finished the check of the watchdog before position sw.i
CheckDone == ev.act = "check_done" /\ sw.pc = "loop" /\ sw.i > 1

\* C1: for a watchdog that was never reset and whose checks were neither
\* overlapped by a command nor cut by a crash, the payload of a check holds no
\* identity that an earlier check reported, and every identity reported so far
\* is in the seen-set the check starts from.
Thm_C1 ==
    /\ (sw.pc = "post" /\ sw.batch = 0 /\ sw.watchdogs[sw.i].channel_id \in clean)
          => Identities(sw.new_listings) \cap notified[sw.watchdogs[sw.i].channel_id] = {}
    /\ (InSweepLoop /\ sw.watchdogs[sw.i].channel_id \in clean)
          => notified[sw.watchdogs[sw.i].channel_id] \subseteq sw.watchdogs[sw.i].last_seen_ids

\* a second reporting check of a watchdog with a clean history
Wit_C1 ==
    /\ sw.pc = "post"
    /\ sw.batch = 0
    /\ sw.watchdogs[sw.i].channel_id \in clean
    /\ notified[sw.watchdogs[sw.i].channel_id] # {}

\* C2: a check during which a page fetch failed leaves the registry as it was
\* (last_check and seen-set of the source unchanged).
Claim_C2 ==
    [][(ev'.act = "check_done" /\ ev'.fetch_failed) => file' = file]_vars

\* C3: no step of a sweep drops an identity from the persisted seen-set of any
\* watchdog: every record keeps its place and its seen-set after the step is a
\* superset of the one before.  (Violated by a kill inside the save of a check;
\* every other step of a sweep keeps it.)
Claim_C3 ==
    [][sw.pc \in {"loop", "post"} =>
          /\ Len(file') = Len(file)
          /\ \A k \in 1..Len(file) :
                /\ file'[k].channel_id = file[k].channel_id
                /\ file[k].last_seen_ids \subseteq file'[k].last_seen_ids
                /\ Cardinality(file[k].last_seen_ids) <= Cardinality(file'[k].last_seen_ids)]_vars

\* C4: after a completed check, with or without new listings, the persisted
\* seen-set is the previous persisted seen-set united with the identities of
\* all identified records of the crawl.
Thm_C4 ==
    [][ev'.act = "check_done" =>
          LET c == ev'.chan
          IN Entry(file', c).last_seen_ids =
                Entry(file, c).last_seen_ids \cup Identities(sw'.all_listings)]_vars

\* a check without new listings has completed on a crawl that returned
\* identified records
Wit_C4 ==
    /\ CheckDone
    /\ sw.new_listings = <<>>
    /\ Identities(sw.all_listings) # {}

\* C5: when a batch is handed to the sink, its identities are already in the
\* persisted seen-set of the watchdog.
Claim_C5 ==
    (sw.pc = "post" /\ sw.batch < Len(sw.new_listings))
       => Identities(sw.new_listings) \subseteq
             Entry(file, sw.watchdogs[sw.i].channel_id).last_seen_ids

\* C6: when the sweep leaves a check that found new listings, however each
\* delivery ended, all identities of the new listings are in the persisted
\* seen-set and last_check is the time of this sweep.
Thm_C6 ==
    [][(sw.pc = "post" /\ sw'.pc = "loop") =>
          LET c == sw.watchdogs[sw.i].channel_id
          IN /\ ev.outcome \in Outcomes
             /\ Identities(sw.new_listings) \subseteq Entry(file', c).last_seen_ids
             /\ Entry(file', c).last_check = IsoFormatZ(sw.now)]_vars

\* such a check has completed after a delivery that raised
Wit_C6 ==
    /\ CheckDone
    /\ sw.new_listings # <<>>
    /\ ev.outcome = "exception"

\* C7: add_watchdog appends a record whose seen-set holds the identities of
\* the initial crawl and whose last_check is null, and hands nothing to the
\* sink; a watchdog whose last_check is null is never skipped by a sweep, and
\* what the check reports is disjoint from the seen-set it started with.
Thm_C7 ==
    [][/\ ev'.act = "add_saved" =>
             \E p \in Procs :
                LET w == file'[Len(file')]
                IN /\ cmd[p].pc = "add_save"
                   /\ Len(file') > 0
                   /\ w.channel_id = ev'.chan
                   /\ w.last_check = Null
                   /\ w.last_seen_ids \ {None} = Identities(cmd[p].initial_listings)
                   /\ notified' = notified
                   /\ notified[w.webhook_url] = {}
       /\ ev'.act \in {"add_load", "add_scan", "add_raised", "add_rejected"} =>
             notified' = notified /\ file' = file
       /\ (InSweepLoop /\ sw.watchdogs[sw.i].last_check = Null /\ ev'.act # "crash") =>
             /\ ev'.act \in {"check_done", "check_new", "check_raised"}
             /\ Identities(sw'.new_listings) \cap sw.watchdogs[sw.i].last_seen_ids = {}]_vars

\* the first check of a watchdog created by add_watchdog with a non-empty seed
\* reports new listings
Wit_C7 ==
    /\ sw.pc = "post"
    /\ ev.act = "check_new"
    /\ sw.watchdogs[sw.i].channel_id > 1
    /\ sw.watchdogs[sw.i].last_check = Null
    /\ sw.watchdogs[sw.i].last_seen_ids # {}
    /\ sw.watchdogs[sw.i].channel_id \in clean

\* C8: a watchdog seeded with the crawl result S and then checked against the
\* same S reports nothing and has exactly the identities of S as its seen-set.
Claim_C8 ==
    [][(/\ seeded.chan # 0
        /\ ev'.act \in {"check_done", "check_new"}
        /\ ev'.chan = seeded.chan
        /\ sw'.all_listings = seeded.listings)
       => /\ ev'.act = "check_done"
          /\ sw'.new_listings = <<>>
          /\ Entry(file', seeded.chan).last_seen_ids = Identities(seeded.listings)]_vars

\* C9: no persisted seen-set holds anything but a real identity.
Claim_C9 ==
    \A k \in 1..Len(file) : None \notin file[k].last_seen_ids

\* due as the claim states it: last_check null or not a timestamp, or the
\* minutes from last_check to the start of the sweep reach the interval
DueAsStated(w, start) ==
    \/ w.last_check.k # "isoZ"
    \/ ~((start - w.last_check.t) < SECONDS_PER_MINUTE * w.interval_minutes)

\* C10: a sweep crawls a source exactly when the source is due, and skipping a
\* source changes nothing of the registry.
Thm_C10 ==
    [][(InSweepLoop /\ ev'.act # "crash") =>
          /\ ev'.act \in {"skip", "check_done", "check_new", "check_raised"}
          /\ (ev'.act # "skip") <=> DueAsStated(sw.watchdogs[sw.i], sw.now)
          /\ (ev'.act = "skip") => (file' = file /\ notified' = notified)]_vars

\* a source was skipped in a sweep that started less than an interval after
\* its last check
Wit_C10 ==
    /\ ev.act = "skip"
    /\ sw.now > 0
    /\ \E k \in 1..Len(sw.watchdogs) :
          /\ sw.watchdogs[k].channel_id = ev.chan
          /\ sw.watchdogs[k].last_check.k = "isoZ"
          /\ sw.now > sw.watchdogs[k].last_check.t

\* the registry holds a record for channel c
Watched(ws, c) == find_watchdog_by_channel(ws, c) # 0

\* C11: as long as a watchdog stays in the registry and is not itself reset,
\* no step replaces its persisted last_check timestamp by an earlier timestamp.
Claim_C11 ==
    [][\A c \in Channels :
          (/\ Watched(file, c)
           /\ Watched(file', c)
           /\ ~(ev'.act = "reset_saved" /\ ev'.chan = c))
          => LET before == Entry(load_watchdogs(file), c).last_check
                 after == Entry(load_watchdogs(file'), c).last_check
             IN (before.k = "isoZ" /\ after.k = "isoZ") => after.t >= before.t]_vars

\* C12: a completed reset_watchdog stores exactly the identities of its seed
\* crawl as the seen-set and a null last_check, hands nothing to the sink and
\* keeps url, interval, channel and webhook of the record it loaded.
Claim_C12 ==
    [][ev'.act = "reset_saved" =>
          \A p \in Procs :
             cmd[p].pc = "reset_scan" =>
                LET c == cmd[p].channel_id
                    old == Entry(cmd[p].watchdogs, c)
                    new == Entry(file', c)
                IN /\ seeded'.chan = c
                   /\ new.last_seen_ids = Identities(seeded'.listings)
                   /\ new.last_check = Null
                   /\ Due(new, clock)
                   /\ \A d \in Channels : notified'[d] \subseteq notified[d]
                   /\ new.url = old.url
                   /\ new.interval_minutes = old.interval_minutes
                   /\ new.channel_id = old.channel_id
                   /\ new.webhook_url = old.webhook_url]_vars

RECURSIVE Flatten(_)
Flatten(seqs) == IF seqs = <<>> THEN <<>> ELSE Head(seqs) \o Flatten(Tail(seqs))

\* the chunks of the first deliveries, in send order
Batches ==
    LET firsts == SelectSeq(post.log, LAMBDA e : e.attempt = 1)
    IN [k \in 1..Len(firsts) |-> firsts[k].chunk]

\* C13: the batches sent so far hold between 1 and 10 lines each and, put
\* together in send order, are the lines of the first listings in input order,
\* one line per listing; when post_to_webhook returns, n >= 1 listings have gone
\* out in ceil(n/10) batches that together are all n lines, and for n = 0
\* nothing was sent.
Thm_C13 ==
    post.pc # "idle" =>
       LET n == Len(post.listings)
           sent == Flatten(Batches)
       IN /\ \A k \in 1..Len(Batches) : Len(Batches[k]) \in 1..10
          /\ Len(sent) <= n
          /\ \A j \in 1..Len(sent) : sent[j] = [line |-> post.listings[j]]
          /\ post.pc = "returned" =>
                /\ Len(sent) = n
                /\ Len(Batches) = (n + 9) \div 10
          /\ n = 0 => post.log = <<>> /\ post.pc = "returned"

\* 21 listings have gone out in three batches
Wit_C13 ==
    /\ post.pc = "returned"
    /\ Len(post.listings) = 21
    /\ Len(Batches) = 3
    /\ Len(Batches[3]) = 1

\* C14: a batch is delivered at most twice; a second delivery directly follows
\* a first delivery of the same batch that answered 429 and comes after a wait
\* of the retry-after the sink gave; the first deliveries go through the
\* batches in order, one batch further each time whatever the outcome before,
\* and at the return every batch has been tried.
Thm_C14 ==
    post.pc # "idle" =>
       LET log == post.log
           n == Len(post.listings)
       IN /\ \A k \in 1..Len(log) :
                /\ Cardinality({ j \in 1..Len(log) : log[j].i = log[k].i }) <= 2
                /\ log[k].attempt = 2 =>
                      /\ k > 1
                      /\ log[k - 1].attempt = 1
                      /\ log[k - 1].i = log[k].i
                      /\ log[k - 1].chunk = log[k].chunk
                      /\ ~log[k - 1].response.raised
                      /\ log[k - 1].response.status_code = 429
                      /\ log[k].waited \in { RetryAfter(b) : b \in { c \in Bodies : c.json } }
                /\ log[k].attempt = 1 =>
                      IF k = 1 THEN log[k].i = 0
                      ELSE log[k].i = log[k - 1].i + 10
          /\ (post.pc = "returned" /\ n >= 1) =>
                { log[k].i : k \in 1..Len(log) } = { 10 * j : j \in 0..((n - 1) \div 10) }

\* the first batch was rate limited twice and given up, the second raised, and
\* the third was still delivered
Wit_C14 ==
    /\ post.pc = "returned"
    /\ Len(post.log) = 4
    /\ post.log[2].attempt = 2
    /\ post.log[2].response.status_code = 429
    /\ post.log[3].response.raised
    /\ post.log[4].i = 20
    /\ post.log[4].response.status_code = 200

\* the crawl key as the claim words it: id, else hash, else seoUrl
KeyOf(r) ==
    IF ~r.isdict THEN None
    ELSE IF r.id # None THEN r.id
    ELSE IF r.hash # None THEN r.hash
    ELSE r.seoUrl

\* a list without the records whose key an earlier record of the list has
FirstOccurrences(rs) ==
    LET kept(k) == KeyOf(rs[k]) = None \/ \A j \in 1..(k - 1) : KeyOf(rs[j]) # KeyOf(rs[k])
        places == SelectSeq([k \in 1..Len(rs) |-> k], kept)
    IN [n \in 1..Len(places) |-> rs[places[n]]]

\* the results lists of the first n pages of the site, one after the other
Served(n) == Flatten(SelectSeq(SubSeq(scrape.server, 1, n), LAMBDA page : page # <<>>))

\* a record without the URL written onto it
Scraped(r) == [f \in DOMAIN r \ {"listingUrl"} |-> r[f]]

\* the list handed back holds the collected records, in their order
ReturnsCollected ==
    /\ Len(scrape.returned) = Len(scrape.all_results)
    /\ \A k \in 1..Len(scrape.returned) :
          Scraped(scrape.returned[k]) = Scraped(scrape.all_results[k])

\* C15: a crawl never calls fetch_page more often than max_pages, every pass of
\* its loop either fetches one more page or ends the loop, the callers' caps
\* are 5 for a check and 999 for a seed crawl, and 5 < 999.
Thm_C15 ==
    [][/\ scrape'.pc # "idle" =>
             /\ scrape'.fetched <= scrape'.max_pages
             /\ scrape'.max_pages \in {CHECK_MAX_PAGES, SEED_MAX_PAGES}
             /\ CHECK_MAX_PAGES = 5
             /\ SEED_MAX_PAGES = 999
             /\ CHECK_MAX_PAGES < SEED_MAX_PAGES
       /\ scrape.pc = "loop" =>
             \/ scrape'.pc = "loop" /\ scrape'.fetched = scrape.fetched + 1
             \/ scrape'.pc = "break" /\ scrape'.fetched = scrape.fetched + 1
             \/ scrape'.pc = "returned" /\ scrape'.fetched = scrape.fetched]_vars

\* a seed crawl of a site that answers every page has returned after 999 pages
Wit_C15 ==
    /\ scrape.pc = "returned"
    /\ scrape.max_pages = 999
    /\ scrape.fetched = 999
    /\ ~scrape.fetch_failed

\* C16: when the fetch of page k has failed, the crawl has fetched k pages and
\* no more, and it returns, without an exception, the records of pages 1..k-1
\* after removal of repeated keys.
Thm_C16 ==
    (scrape.pc \in {"break", "returned"} /\ scrape.fetch_failed) =>
       LET k == scrape.fetched
       IN /\ FetchRaises(scrape.server, k)
          /\ \A j \in 1..(k - 1) : ~FetchRaises(scrape.server, j)
          /\ scrape.all_results = FirstOccurrences(Served(k - 1))
          /\ scrape.pc = "returned" => ReturnsCollected

\* the fetch of a later page failed after records had been collected
Wit_C16 ==
    /\ scrape.pc = "returned"
    /\ scrape.fetch_failed
    /\ scrape.fetched = 3
    /\ Len(scrape.returned) = 2

\* C17: what a crawl has collected is the concatenation of the results lists of
\* the pages fetched, in page order, without every record whose crawl key (id,
\* else hash, else seoUrl) an earlier record has; records without key all stay.
Thm_C17 ==
    scrape.pc # "idle" =>
       LET fetched_ok == IF scrape.fetch_failed THEN scrape.fetched - 1 ELSE scrape.fetched
       IN /\ scrape.all_results = FirstOccurrences(Served(fetched_ok))
          /\ scrape.pc = "returned" => ReturnsCollected

\* a record came on two pages and was kept once, a record without key came
\* twice and was kept twice
Wit_C17 ==
    /\ scrape.pc = "returned"
    /\ Len(scrape.server) = 2
    /\ Len(Served(2)) = 4
    /\ Len(scrape.returned) = 3
    /\ KeyOf(scrape.returned[2]) = None
    /\ scrape.returned[3] = scrape.returned[2]

\* C18: the next URL is the current one with strana = current page + 1 first
\* in the query, followed by all other pairs in their original order; the
\* current page is the number in strana, or page_num when there is no strana.
Claim_C18 ==
    call.fn = "build_next_page_url_sreality" =>
       LET query == call.current_url.query
           out == call.result.query
           stranas == SelectSeq(query, LAMBDA pr : pr[1] = "strana")
           rest == SelectSeq(query, LAMBDA pr : pr[1] # "strana")
       IN /\ call.result.base = call.current_url.base
          /\ Len(out) >= 1
          /\ out[1][1] = "strana"
          /\ stranas = <<>> => out[1][2] = Str(call.page_num + 1)
          /\ (stranas # <<>> /\ stranas[1][2] \in {"1", "2", "3"}) =>
                out[1][2] = Str(IntOf(stranas[1][2]).n + 1)
          /\ Tail(out) = rest

\* C19: a record keeps the listingUrl it came with.
Claim_C19 ==
    scrape.pc = "returned" =>
       \A k \in 1..Len(scrape.all_results) :
          "listingUrl" \in DOMAIN scrape.all_results[k] =>
             scrape.returned[k].listingUrl = scrape.all_results[k].listingUrl

\* the usable values among the URL fields of a mapping
UsablePlaces(d, keys) == { k \in 1..Len(keys) : Usable(Get(d, keys[k])) }

First(d, keys) == Get(d, keys[CHOOSE k \in UsablePlaces(d, keys) :
                                 \A j \in UsablePlaces(d, keys) : k <= j])

HasDirect(item) == UsablePlaces(item, DIRECT_URL_KEYS) # {}

HasNested(item, key) ==
    GetDict(item, key).isdict /\ UsablePlaces(GetDict(item, key), NESTED_URL_KEYS) # {}

\* the identifier of a record: its id, else its hash
Identifier(item) == IF Truthy(Get(item, "id")) THEN Get(item, "id") ELSE Get(item, "hash")

\* C20 as stated: none is returned only for a record with no usable URL field
\* and no identifier, and every record with an id or hash gets a URL that ends
\* in that identifier.
Claim_C20 ==
    (call.fn = "get_listing_url" /\ call.item.isdict) =>
       LET item == call.item
           no_field == ~HasDirect(item) /\ ~HasNested(item, "seo") /\ ~HasNested(item, "link")
       IN /\ call.result = NoUrl => (no_field /\ ~Truthy(Identifier(item)))
          /\ Truthy(Identifier(item)) =>
                /\ call.result # NoUrl
                /\ call.result[Len(call.result)] = Identifier(item)

\* C20: get_listing_url returns the URL of the first usable direct field, else
\* that of the first usable field under seo, else under link, an absolute URL
\* as it is and a relative one joined to the site; without any, a record with
\* an id or hash gets a detail URL that ends in the id, else the hash; none is
\* returned exactly when there is neither a usable URL field nor an id or hash.
Thm_C20 ==
    (call.fn = "get_listing_url" /\ call.item.isdict) =>
       LET item == call.item
           out == call.result
           no_field == ~HasDirect(item) /\ ~HasNested(item, "seo") /\ ~HasNested(item, "link")
           given ==
               IF HasDirect(item) THEN First(item, DIRECT_URL_KEYS)
               ELSE IF HasNested(item, "seo") THEN First(item.seo, NESTED_URL_KEYS)
               ELSE First(item.link, NESTED_URL_KEYS)
       IN /\ ~no_field =>
                out = IF given \in AbsoluteUrls THEN <<given>> ELSE <<BASE_DOMAIN, given>>
          /\ (no_field /\ Truthy(Identifier(item))) =>
                /\ Len(out) >= 3
                /\ out[1] = BASE_DOMAIN
                /\ out[2] = "detail"
                /\ out[Len(out)] = Identifier(item)
          /\ out = NoUrl <=> (no_field /\ ~Truthy(Identifier(item)))

\* a record with a usable URL field and an id got the URL of the field
Wit_C20 ==
    /\ call.fn = "get_listing_url"
    /\ call.item.isdict
    /\ HasDirect(call.item)
    /\ Truthy(Get(call.item, "id"))
    /\ call.result # NoUrl
    /\ call.result[Len(call.result)] # Get(call.item, "id")

\* C21: the interval that add_watchdog or set_watchdog_interval stores for a
\* checks_per_day c in 1..96 is max(1, floor(1440 / c)), lies in 15..1440 and
\* gives interval * c <= 1440; without checks_per_day add_watchdog stores 720;
\* every stored interval is at least 1 minute.
Thm_C21 ==
    [][LET stated(c, m) ==
               IF c = NoCpd THEN m = 720
               ELSE /\ c \in 1..96
                    /\ m = (IF 1440 \div c >= 1 THEN 1440 \div c ELSE 1)
                    /\ m \in 15..1440
                    /\ m * c <= 1440
                    /\ (m + 1) * c > 1440
       IN /\ ev'.act = "interval_set" =>
                /\ ev'.checks_per_day # NoCpd
                /\ stated(ev'.checks_per_day, Entry(file', ev'.chan).interval_minutes)
          /\ ev'.act = "add_saved" =>
                stated(ev'.checks_per_day, Entry(file', ev'.chan).interval_minutes)
          /\ \A k \in 1..Len(file') : file'[k].interval_minutes >= 1]_vars

\* a watchdog added without checks_per_day has been switched to 7 checks a day,
\* which does not divide 1440
Wit_C21 ==
    /\ ev.act = "interval_set"
    /\ ev.checks_per_day = 7
    /\ Entry(file, ev.chan).interval_minutes = 205
    /\ seeded = NoSeed
    /\ nextChan = 2

\* the hour of day of a time in seconds
HourOf(t) == (t \div 3600) % 24

\* C22: whatever the peak window is, the interval a sweep applies to a watchdog
\* is smaller than the watchdog's base interval when the sweep starts in a peak
\* hour and larger than it when the sweep starts outside the peak hours.
Claim_C22 ==
    InSweepLoop =>
       LET w == sw.watchdogs[sw.i]
           hour == HourOf(sw.now)
       IN \E peak_start \in 0..23, peak_end \in 0..24 :
             IF peak_start <= hour /\ hour < peak_end
             THEN AppliedInterval(w) < w.interval_minutes
             ELSE AppliedInterval(w) > w.interval_minutes

\* C24: the save of an add_watchdog or reset_watchdog leaves the persisted
\* seen-set and last_check of every other watchdog as they were in the registry
\* just before the save.
Claim_C24 ==
    [][ev'.act \in {"add_saved", "reset_saved"} =>
          \A c \in Channels :
             (c # ev'.chan /\ Watched(file, c)) =>
                /\ Watched(file', c)
                /\ Entry(load_watchdogs(file'), c).last_seen_ids =
                      Entry(load_watchdogs(file), c).last_seen_ids
                /\ Entry(load_watchdogs(file'), c).last_check =
                      Entry(load_watchdogs(file), c).last_check]_vars

\* C25: a channel that has no record in the persisted registry gets one only
\* as the new record of a completed add_watchdog; a removed record does not
\* come back through the save of a command that loaded the registry before the
\* removal, and the sweep checks only channels the registry holds.
Claim_C25 ==
    [][/\ \A c \in Channels :
             (~Watched(file, c) /\ Watched(file', c)) =>
                (ev'.act = "add_saved" /\ ev'.chan = c)
       /\ ev'.act \in {"check_done", "check_new", "check_raised"} =>
             Watched(file, ev'.chan)]_vars

\* C26: the persisted registry never holds two records with the same url;
\* add_watchdog goes on only with a url that the registry it loaded does not
\* hold and rejects a url that it holds, also with two add_watchdog for the
\* same url in flight.
Thm_C26 ==
    [][/\ \A j, k \in 1..Len(file') : j # k => file'[j].url # file'[k].url
       /\ ev'.act = "add_load" =>
             \A p \in DOMAIN cmd :
                cmd'[p] # cmd[p] => find_watchdog_by_url(file, cmd'[p].url) = 0
       /\ ev'.act = "add_rejected" =>
             (cmd' = cmd /\ \E url \in Urls : find_watchdog_by_url(file, url) # 0)]_vars

\* an add_watchdog has saved its record while another add_watchdog for the same
\* url, which found the url unwatched, is about to save its own
Wit_C26 ==
    /\ ev.act = "add_saved"
    /\ ev.chan = 1
    /\ nextChan <= MaxChannels
    /\ Len(file) = 1
    /\ \E p \in DOMAIN cmd : cmd[p].pc = "add_save" /\ cmd[p].url = file[1].url

\* C27: the list a crawl returns holds no two records with the same
\* ListingIdentity (hash, else id).
Claim_C27 ==
    scrape.pc = "returned" =>
       \A j, k \in 1..Len(scrape.returned) :
          LET a == scrape.returned[j]
              b == scrape.returned[k]
          IN (j < k /\ a.isdict /\ b.isdict /\ Identity(a) # None) =>
                Identity(a) # Identity(b)

\* C28: a page without results list adds no record and the loop goes on to the
\* next page; every page fetched without exception is followed by a next URL
\* that differs from the current one; the loop is left only at the page cap or
\* on an exception of the fetch or the extraction, so a crawl in which no page
\* failed has fetched exactly max_pages pages.
Thm_C28 ==
    [][/\ (/\ scrape.pc = "loop"
            /\ scrape.page_num <= scrape.max_pages
            /\ ~FetchRaises(scrape.server, scrape.page_num)) =>
             /\ scrape'.pc = "loop"
             /\ scrape'.current # scrape.current
             /\ scrape'.page_num = scrape.page_num + 1
             /\ scrape.server[scrape.page_num] = <<>> =>
                   scrape'.all_results = scrape.all_results
       /\ scrape'.pc = "returned" =>
             /\ scrape'.stop \in {"cap", "exception"}
             /\ scrape'.stop = "exception" <=> scrape'.fetch_failed
             /\ ~scrape'.fetch_failed => scrape'.fetched = scrape'.max_pages]_vars

\* a check crawl has run into its cap of 5 pages and returns the records of
\* page 2, after a page 1 without results list
Wit_C28 ==
    /\ scrape.pc = "returned"
    /\ scrape.max_pages = 5
    /\ scrape.fetched = 5
    /\ scrape.stop = "cap"
    /\ scrape.server[1] = <<>>
    /\ Len(scrape.returned) = 2

\* the page of a URL: the number in its first strana, else the page counter
PageOf(url, page_num) ==
    LET stranas == SelectSeq(url.query, LAMBDA pr : pr[1] = "strana")
        number == IntOf(stranas[1][2])
    IN IF stranas # <<>> /\ ~number.raised THEN number.n ELSE page_num

\* C29: the first URL fetched is the start URL; the page of every further URL
\* fetched is the page of the URL fetched before plus 1, written in strana at
\* the head of the query; no URL is fetched twice; and the page of the URL in
\* turn minus the page counter is what it was at the start.
Thm_C29 ==
    [][scrape'.pc # "idle" =>
          LET u == scrape'.urls
              n == Len(u)
          IN /\ n = scrape'.fetched
             /\ n >= 1 => /\ u[1] = scrape'.start_url
                          /\ PageOf(u[n], n) - n = PageOf(scrape'.start_url, 1) - 1
                          /\ \A j \in 1..(n - 1) : u[j] # u[n]
             /\ n >= 2 => /\ u[n].query[1] = <<"strana", Str(PageOf(u[n], n))>>
                          /\ PageOf(u[n], n) = PageOf(u[n - 1], n - 1) + 1
                          /\ u[n].base = u[n - 1].base
             /\ (n >= 1 /\ scrape'.pc = "loop") =>
                   PageOf(scrape'.current, scrape'.page_num) - scrape'.page_num
                       = PageOf(u[n], n) - n]_vars

\* a seed crawl that started on page 03 has fetched 999 pages, the last one
\* with strana=1001
Wit_C29 ==
    /\ scrape.pc = "returned"
    /\ scrape.fetched = 999
    /\ scrape.start_url = SearchUrl(<< <<"strana", "03">> >>)
    /\ scrape.urls[999] = SearchUrl(<< <<"strana", "1001">> >>)

InSweep(s) == s.pc \in {"loop", "post"}

\* C30: a sweep takes the time and the registry once, goes through the records
\* in registry order one position at a time and changes no record but the one
\* in turn; the record in turn is checked when it is due and skipped when not,
\* a check that raises moves on to the next record, each record gets at most
\* one check, and the sweep ends only behind the last record.
Thm_C30 ==
    [][/\ ev'.act = "begin" =>
             /\ sw'.i = 1
             /\ sw'.watchdogs = load_watchdogs(file)
             /\ sw'.now = clock
       /\ (InSweep(sw) /\ InSweep(sw')) =>
             /\ sw'.now = sw.now
             /\ Len(sw'.watchdogs) = Len(sw.watchdogs)
             /\ \A k \in 1..Len(sw.watchdogs) :
                   k # sw.i => sw'.watchdogs[k] = sw.watchdogs[k]
             /\ sw'.i \in {sw.i, sw.i + 1}
             /\ sw'.i = sw.i => sw'.pc = "post"
             /\ sw.pc = "post" => ev'.act \in {"post", "check_done"}
       /\ InSweepLoop =>
             LET w == sw.watchdogs[sw.i]
             IN /\ ev'.chan = w.channel_id
                /\ IF DueAsStated(w, sw.now)
                   THEN ev'.act \in {"check_done", "check_new", "check_raised"}
                   ELSE ev'.act = "skip"
                /\ ev'.act # "check_new" => (sw'.pc = "loop" /\ sw'.i = sw.i + 1)
       /\ (InSweep(sw) /\ ~InSweep(sw')) =>
             (sw.pc = "loop" /\ sw.i = Len(sw.watchdogs) + 1)]_vars

\* the second record of the registry has been checked in a sweep in which the
\* check of the first, which was due, raised
Wit_C30 ==
    /\ InSweep(sw)
    /\ Len(sw.watchdogs) = 2
    /\ sw.i = 3
    /\ ev.act = "check_done"
    /\ ev.chan = sw.watchdogs[2].channel_id
    /\ sw.watchdogs[2].last_check = IsoFormatZ(sw.now)
    /\ sw.watchdogs[1].last_check = IsoFormatZ(0)
    /\ sw.now >= 900
    /\ DueAsStated(sw.watchdogs[1], sw.now)

\* C31: a completed check records the start time of its sweep as last_check,
\* and for a watchdog that was not reset and whose interval was not changed
\* since its previous completed check, that time is at least the interval
\* after the last_check the previous completed check recorded.
Claim_C31 ==
    [][ev'.act = "check_done" =>
          LET c == ev'.chan
              w == Entry(file', c)
          IN /\ w.last_check = IsoFormatZ(sw.now)
             /\ checked'[c] = w.last_check
             /\ checked[c] # Null =>
                   sw.now - checked[c].t >= w.interval_minutes * SECONDS_PER_MINUTE]_vars

\* the records of a crawl result that have an identity, in crawl order
Identified(listings) == SelectSeq(listings, LAMBDA l : Identity(l) # None)

\* the sweep is about to look at the watchdog that the latest add or reset
\* seeded with an empty crawl result
FirstLookAfterEmptySeed ==
    /\ InSweepLoop
    /\ seeded.chan # 0
    /\ seeded.listings = <<>>
    /\ sw.watchdogs[sw.i].channel_id = seeded.chan

\* a seed stores the identities of what its crawl returned, whether or not a
\* fetch failed; after a crawl that returned nothing the seen-set is empty
SeedFromCrawl ==
    /\ ev'.act \in {"reset_saved", "add_saved"} =>
          LET w == Entry(file', ev'.chan)
          IN /\ seeded'.chan = ev'.chan
             /\ w.last_seen_ids \ {None} = Identities(seeded'.listings)
             /\ w.last_check = Null
             /\ seeded'.listings = <<>> => w.last_seen_ids = {}
    /\ (ev'.act = "reset_saved" /\ ev'.fetch_failed) =>
          \E crawl \in SeedCrawls :
             crawl.fetch_failed /\ crawl.results = seeded'.listings

\* C32 as stated: a seed stores the identities of whatever its crawl returned,
\* also after a failed fetch, and the next look of the sweep at a watchdog
\* seeded with an empty result is a check that reports every identified
\* record of its crawl.
Claim_C32 ==
    [][/\ SeedFromCrawl
       /\ (FirstLookAfterEmptySeed /\ ev'.act # "crash") =>
             /\ ev'.act \in {"check_done", "check_new"}
             /\ sw'.new_listings = Identified(sw'.all_listings)]_vars

\* C32: as Claim_C32, but the check reports nothing and leaves the registry
\* alone when it raises (a crawl result that holds an element that is not a
\* mapping); otherwise it reports every identified record of its crawl.
Thm_C32 ==
    [][/\ SeedFromCrawl
       /\ (FirstLookAfterEmptySeed /\ ev'.act # "crash") =>
             /\ ev'.act \in {"check_done", "check_new", "check_raised"}
             /\ ev'.act = "check_raised" => (file' = file /\ notified' = notified)
             /\ ev'.act # "check_raised" =>
                   /\ ~DiffRaises(sw'.all_listings)
                   /\ sw'.new_listings = Identified(sw'.all_listings)]_vars

\* a reset whose crawl failed on its first fetch has succeeded and left the
\* watchdog, which had a seen-set, with an empty one
Wit_C32 ==
    /\ ev.act = "reset_saved"
    /\ ev.fetch_failed
    /\ seeded.chan = ev.chan
    /\ seeded.listings = <<>>
    /\ Entry(file, ev.chan).last_seen_ids = {}
    /\ Entry(file, ev.chan).last_check = Null

Range(seq) == { seq[n] : n \in 1..Len(seq) }

\* every results list anywhere in a parsed value: at a dict, a value that
\* qualifies is recorded, and every value is searched, recorded or not
RECURSIVE ResultsListsAnywhere(_)
ResultsListsAnywhere(obj) ==
    IF obj.t = "dict"
    THEN UNION { (IF IsResultsList(obj.items[n][1], obj.items[n][2])
                  THEN {obj.items[n][2]} ELSE {})
                 \cup ResultsListsAnywhere(obj.items[n][2]) : n \in 1..Len(obj.items) }
    ELSE IF obj.t = "list"
    THEN UNION { ResultsListsAnywhere(obj.items[n]) : n \in 1..Len(obj.items) }
    ELSE {}

\* C33: find_results_lists returns every non-empty list under a key results
\* whose first element is a mapping, wherever it is in the value, also inside
\* the elements of a list it has returned.
Claim_C33 ==
    call.fn = "find_results_lists" =>
       Range(call.result) = ResultsListsAnywhere(call.obj)

\* the number of "{" minus the number of "}" in t from position a to b
Balance(t, a, b) ==
    Cardinality({ i \in a..b : t[i] = "{" }) - Cardinality({ i \in a..b : t[i] = "}" })

\* position a..b of t is a block that opens at a and first closes at b
IsBlock(t, a, b) ==
    /\ a < b
    /\ t[a] = "{"
    /\ t[b] = "}"
    /\ Balance(t, a, b) = 0
    /\ \A j \in a..(b - 1) : Balance(t, a, j) > 0

\* the values the scan returns when, after a block that does not parse, it
\* goes on at the next "{" behind the opening brace of that block
RECURSIVE ScanAsStated(_, _)
ScanAsStated(t, start) ==
    IF start = 0 \/ ~\E j \in start..Len(t) : IsBlock(t, start, j) THEN <<>>
    ELSE LET j == CHOOSE c \in start..Len(t) : IsBlock(t, start, c)
             parsed == json_loads(SubSeq(t, start, j))
         IN IF parsed.raised
            THEN ScanAsStated(t, Find(t, "{", start + 1))
            ELSE <<parsed.value>> \o ScanAsStated(t, Find(t, "{", j + 1))

\* C36 as stated: the brace scan returns the blocks that parse, and after a
\* block that does not parse it goes on at the next "{" inside that block, so
\* an object nested in it is returned.
Claim_C36 ==
    (call.fn = "try_extract_json_from_text" /\ call.result.by = "braces") =>
       call.result.objs = ScanAsStated(call.text, Find(call.text, "{", 1))

\* C36: the brace scan ends on every text; the blocks it tries to parse lie
\* one behind the other, each from the first "{" behind the block before (the
\* first "{" of the text for the first) to the "}" that closes it, whether the
\* block before parsed or not, so nothing inside a block is tried; the scan
\* ends at a "{" that is never closed or when no "{" is left; it returns the
\* values of the blocks that parse, in order.
Thm_C36 ==
    (call.fn = "try_extract_json_from_text" /\ call.result.by = "braces") =>
       LET t == call.text
           b == call.result.blocks
           tried == { k \in 1..Len(b) : ~b[k].parsed.raised }
           from == IF b = <<>> THEN 1 ELSE b[Len(b)].end + 1
           rest == Find(t, "{", from)
       IN /\ Len(b) * 2 <= Len(t)
          /\ \A k \in 1..Len(b) :
                /\ IsBlock(t, b[k].start, b[k].end)
                /\ b[k].parsed = json_loads(SubSeq(t, b[k].start, b[k].end))
                /\ b[k].start = Find(t, "{", IF k = 1 THEN 1 ELSE b[k - 1].end + 1)
          /\ rest # 0 => ~\E j \in rest..Len(t) : IsBlock(t, rest, j)
          /\ Len(call.result.objs) = Cardinality(tried)
          /\ \A k \in tried :
                call.result.objs[Cardinality({ m \in tried : m <= k })] = b[k].parsed.value

\* the scan has discarded a block that holds a block that parses, and has
\* returned nothing
Wit_C36 ==
    /\ call.fn = "try_extract_json_from_text"
    /\ call.result.by = "braces"
    /\ call.result.objs = <<>>
    /\ \E k \in 1..Len(call.result.blocks) :
          LET blk == call.result.blocks[k]
          IN /\ blk.parsed.raised
             /\ \E a2 \in (blk.start + 1)..blk.end, b2 \in (blk.start + 1)..blk.end :
                   /\ IsBlock(call.text, a2, b2)
                   /\ ~json_loads(SubSeq(call.text, a2, b2)).raised

\* C34: the result of a page is empty when no results list is found in its
\* scripts; otherwise it is one of the lists found, no list found is longer,
\* and every list found before it is shorter.
Thm_C34 ==
    call.fn = "extract_results_from_html" =>
       LET lists == call.result.results_lists
           results == call.result.results
       IN /\ lists = <<>> => results = <<>>
          /\ lists # <<>> =>
                \E k \in 1..Len(lists) :
                   /\ results = lists[k].items
                   /\ \A m \in 1..Len(lists) : Len(lists[m].items) <= Len(results)
                   /\ \A m \in 1..(k - 1) : Len(lists[m].items) < Len(results)
                   /\ \A m \in 1..(k - 1) : lists[m].items # results

\* a page on which three lists were found, the second and the third of the
\* same length, longer than the first and different from each other
Wit_C34 ==
    /\ call.fn = "extract_results_from_html"
    /\ Len(call.result.results_lists) = 3
    /\ Len(call.result.results_lists[1].items) = 1
    /\ Len(call.result.results_lists[2].items) = 2
    /\ Len(call.result.results_lists[3].items) = 2
    /\ call.result.results_lists[2] # call.result.results_lists[3]
    /\ call.result.results = call.result.results_lists[2].items

\* C35: a page whose scripts are all either at most 200 characters long or
\* free of the words gives the empty result.
Thm_C35 ==
    (/\ call.fn = "extract_results_from_html"
     /\ \A n \in 1..Len(call.scripts) :
           LET sc == call.scripts[n]
           IN \/ ~sc.long
              \/ ~(sc.keyword \/ \E i \in 1..Len(sc.text) : sc.text[i] = "results:"))
    => /\ call.result.results = <<>>
       /\ call.result.results_lists = <<>>

\* such a page with a short script that holds a results list and a long
\* script that holds none of the words
Wit_C35 ==
    /\ call.fn = "extract_results_from_html"
    /\ call.result.results = <<>>
    /\ Len(call.scripts) = 2
    /\ ~call.scripts[1].long
    /\ find_results_lists(json_loads(call.scripts[1].text).value) # <<>>
    /\ call.scripts[2].long
    /\ ~call.scripts[2].keyword
    /\ call.scripts[2].text # <<>>

\* C37: load_watchdogs gives a record the default of each of the four fields it
\* lacks (interval_minutes 720, created_at the time of the load, created_by
\* none, last_check none), leaves every field the record holds as it is, adds
\* no other field and keeps the records and their order; a record that lacks
\* last_check is due in a sweep at the time of the load and at any later time.
Thm_C37 ==
    call.fn = "load_watchdogs" =>
       LET data == call.data
           watchdogs == call.result
       IN /\ Len(watchdogs) = Len(data)
          /\ \A k \in 1..Len(data) :
                LET absent(f) == f \notin DOMAIN data[k]
                IN /\ DOMAIN watchdogs[k] =
                         DOMAIN data[k] \cup {"interval_minutes", "created_at",
                                              "created_by", "last_check"}
                   /\ \A f \in DOMAIN data[k] : watchdogs[k][f] = data[k][f]
                   /\ absent("interval_minutes") => watchdogs[k].interval_minutes = 720
                   /\ absent("created_at") => watchdogs[k].created_at = IsoFormatZ(call.now)
                   /\ absent("created_by") => watchdogs[k].created_by = Null
                   /\ absent("last_check") =>
                         /\ watchdogs[k].last_check = Null
                         /\ \A t \in {call.now, MaxClock} \cup TimeSteps :
                                t >= call.now => Due(watchdogs[k], t)

\* a registry loaded at a time after 0 whose first record lacks all four fields
\* and whose second holds them all, with values other than the defaults
Wit_C37 ==
    /\ call.fn = "load_watchdogs"
    /\ call.now > 0
    /\ Len(call.data) = 2
    /\ call.data[1] = LegacyWatchdog
    /\ call.result[1].interval_minutes = 720
    /\ call.result[1].created_at = IsoFormatZ(call.now)
    /\ DOMAIN call.data[2] = DOMAIN call.result[2]
    /\ call.data[2].interval_minutes = 15
    /\ call.data[2].created_by # Null
    /\ call.data[2].last_check = IsoFormatZ(0)
    /\ call.result[2] = call.data[2]
    /\ ~Due(call.result[2], call.now)

====
